---- MODULE Spec2Model ----
(***************************************************************************)
(* Binary protocol layer of the Cropper AMM: the instruction codec         *)
(* (amm_instruction.rs) and the account-state codec (amm_stats.rs).        *)
(*                                                                         *)
(* The codec functions are pure; they are modelled as operators computed   *)
(* as the code computes them, and driven by a state machine in which a     *)
(* caller encodes a value into a byte buffer, the buffer is possibly       *)
(* truncated, extended or overwritten at one byte on its way, and a        *)
(* decoder is then applied to it.                                          *)
(*                                                                         *)
(* A byte is an integer in 0..255.  A u64 is kept at its full width as     *)
(* four 16-bit words, least significant first, so that every 8-byte        *)
(* pattern is a value and the little-endian conversion is computed.        *)
(***************************************************************************)
EXTENDS Integers, Sequences, FiniteSets, TLC

----------------------------------------------------------------------------
(* Results.  A Rust Result is Ok(v) or Err(e); a panic (an index or a      *)
(* slice bound out of range) is a third outcome, kept apart from Err.      *)

Ok(v) == [tag |-> "Ok", val |-> v]

Err(e) == [tag |-> "Err", val |-> e]

Panicked == [tag |-> "Panic", val |-> "out of range"]

IsOk(r) == r.tag = "Ok"

IsErr(r) == r.tag = "Err"

IsPanic(r) == r.tag = "Panic"

\* AmmError::InvalidInstruction, converted into a ProgramError.
InvalidInstruction == "InvalidInstruction"

\* ProgramError::InvalidAccountData
InvalidAccountData == "InvalidAccountData"

\* ProgramError::UninitializedAccount
UninitializedAccount == "UninitializedAccount"

----------------------------------------------------------------------------
(* Bytes, slices and u64.                                                  *)

ByteBase == 256

WordBase == 65536

\* s[from..] of a slice, 0-based as in Rust; the caller has checked from <= len.
SliceFrom(s, from) == SubSeq(s, from + 1, Len(s))

\* s[..to] of a slice; the caller has checked to <= len.
SliceTo(s, to) == SubSeq(s, 1, to)

\* <[u8]>::split_first: None on the empty slice, else (first, rest).
split_first(s) ==
    IF Len(s) = 0 THEN Err("None") ELSE Ok(<<s[1], SliceFrom(s, 1)>>)

\* <[u8]>::split_at(mid): panics when mid > len.
split_at(s, mid) ==
    IF mid > Len(s) THEN Panicked ELSE Ok(<<SliceTo(s, mid), SliceFrom(s, mid)>>)

\* <[u8]>::get(..to): None when to > len.
get_to(s, to) ==
    IF to > Len(s) THEN Err("None") ELSE Ok(SliceTo(s, to))

\* u64::from_le_bytes on 8 bytes: word k is bytes 2k-1 (low) and 2k (high).
from_le_bytes(b) == [k \in 1..4 |-> b[2 * k - 1] + ByteBase * b[2 * k]]

\* Mutant of to_le_bytes: the bytes most significant first.
to_be_bytes(v) ==
    [i \in 1..8 |-> IF i % 2 = 1 THEN v[(10 - i) \div 2] \div ByteBase
                                 ELSE v[(10 - i) \div 2] % ByteBase]

\* u64::to_le_bytes: the 8 bytes of the value, least significant first.
to_le_bytes(v) ==
    [i \in 1..8 |-> IF i % 2 = 1 THEN v[(i + 1) \div 2] % ByteBase
                                 ELSE v[i \div 2] \div ByteBase]

\* The u64 whose value is the natural number n (n below 2^31).
U64(n) == <<n % WordBase, (n \div WordBase) % WordBase, 0, 0>>

\* u64::MAX
U64Max == <<WordBase - 1, WordBase - 1, WordBase - 1, WordBase - 1>>

----------------------------------------------------------------------------
(* AmmInstruction and its six payload structs.                             *)

Initialize(nonce) == [variant |-> "Initialize", nonce |-> nonce]

Swap(amount_in, minimum_amount_out) ==
    [variant |-> "Swap", amount_in |-> amount_in,
     minimum_amount_out |-> minimum_amount_out]

DepositAllTokenTypes(pool_token_amount, maximum_token_a_amount, maximum_token_b_amount) ==
    [variant |-> "DepositAllTokenTypes", pool_token_amount |-> pool_token_amount,
     maximum_token_a_amount |-> maximum_token_a_amount,
     maximum_token_b_amount |-> maximum_token_b_amount]

WithdrawAllTokenTypes(pool_token_amount, minimum_token_a_amount, minimum_token_b_amount) ==
    [variant |-> "WithdrawAllTokenTypes", pool_token_amount |-> pool_token_amount,
     minimum_token_a_amount |-> minimum_token_a_amount,
     minimum_token_b_amount |-> minimum_token_b_amount]

DepositSingleTokenTypeExactAmountIn(source_token_amount, minimum_pool_token_amount) ==
    [variant |-> "DepositSingleTokenTypeExactAmountIn",
     source_token_amount |-> source_token_amount,
     minimum_pool_token_amount |-> minimum_pool_token_amount]

WithdrawSingleTokenTypeExactAmountOut(destination_token_amount, maximum_pool_token_amount) ==
    [variant |-> "WithdrawSingleTokenTypeExactAmountOut",
     destination_token_amount |-> destination_token_amount,
     maximum_pool_token_amount |-> maximum_pool_token_amount]

\* Mutant of unpack_u64: the length is not checked before the split.
unpack_u64_unchecked(input) ==
    LET sp == split_at(input, 8) IN
    IF IsPanic(sp) THEN Panicked
    ELSE LET amount == get_to(sp.val[1], 8) IN
         IF ~IsOk(amount) THEN Err(InvalidInstruction)
         ELSE Ok(<<from_le_bytes(amount.val), sp.val[2]>>)

\* Mutant of unpack_u64: too few bytes are reported with an error of their own.
unpack_u64_typed(input) ==
    IF Len(input) >= 8
    THEN LET sp == split_at(input, 8) IN
         IF IsPanic(sp) THEN Panicked
         ELSE LET amount == get_to(sp.val[1], 8) IN
              IF ~IsOk(amount) THEN Err(InvalidInstruction)
              ELSE Ok(<<from_le_bytes(amount.val), sp.val[2]>>)
    ELSE Err(InvalidAccountData)

\* Mutant of unpack_u64: a field is read only when more than 8 bytes are
\* left.
unpack_u64_off_by_one(input) ==
    IF Len(input) > 8
    THEN LET sp == split_at(input, 8) IN
         IF IsPanic(sp) THEN Panicked
         ELSE LET amount == get_to(sp.val[1], 8) IN
              IF ~IsOk(amount) THEN Err(InvalidInstruction)
              ELSE Ok(<<from_le_bytes(amount.val), sp.val[2]>>)
    ELSE Err(InvalidInstruction)

\* AmmInstruction::unpack_u64: 8 bytes as a little-endian u64, and the rest.
unpack_u64(input) ==
    IF Len(input) >= 8
    THEN LET sp == split_at(input, 8) IN
         IF IsPanic(sp) THEN Panicked
         ELSE LET amount == get_to(sp.val[1], 8) IN
              IF ~IsOk(amount) THEN Err(InvalidInstruction)
              ELSE Ok(<<from_le_bytes(amount.val), sp.val[2]>>)
    ELSE Err(InvalidInstruction)

\* Mutant of unpack_2: bytes left behind the second field are rejected.
unpack_2_strict(rest) ==
    LET a == unpack_u64(rest) IN
    IF ~IsOk(a) THEN a
    ELSE LET b == unpack_u64(a.val[2]) IN
         IF ~IsOk(b) THEN b
         ELSE IF Len(b.val[2]) # 0 THEN Err(InvalidInstruction)
         ELSE Ok(<<a.val[1], b.val[1]>>)

\* Two consecutive unpack_u64 calls, each propagated with `?`.
unpack_2(rest) ==
    LET a == unpack_u64(rest) IN
    IF ~IsOk(a) THEN a
    ELSE LET b == unpack_u64(a.val[2]) IN
         IF ~IsOk(b) THEN b ELSE Ok(<<a.val[1], b.val[1]>>)

\* Mutant of the three consecutive unpack_u64 calls: the third call reads the
\* rest the first call left, and so reads the second field again.
unpack_3_stale_rest(rest) ==
    LET a == unpack_u64(rest) IN
    IF ~IsOk(a) THEN a
    ELSE LET b == unpack_u64(a.val[2]) IN
         IF ~IsOk(b) THEN b
         ELSE LET c == unpack_u64(a.val[2]) IN
              IF ~IsOk(c) THEN c
              ELSE IF Len(b.val[2]) < 8 THEN Err(InvalidInstruction)
              ELSE Ok(<<a.val[1], b.val[1], c.val[1]>>)

\* Three consecutive unpack_u64 calls, each propagated with `?`.
unpack_3(rest) ==
    LET a == unpack_u64(rest) IN
    IF ~IsOk(a) THEN a
    ELSE LET b == unpack_u64(a.val[2]) IN
         IF ~IsOk(b) THEN b
         ELSE LET c == unpack_u64(b.val[2]) IN
              IF ~IsOk(c) THEN c ELSE Ok(<<a.val[1], b.val[1], c.val[1]>>)

\* Mutant of unpack_initialize: bytes behind the nonce are tolerated.
unpack_initialize_lenient(rest) ==
    IF Len(rest) >= 1
    THEN LET sf == split_first(rest) IN
         IF ~IsOk(sf) THEN Err(InvalidInstruction) ELSE Ok(Initialize(sf.val[1]))
    ELSE Err(InvalidInstruction)

\* The match arm of AmmInstruction::unpack for tag 0.
unpack_initialize(rest) ==
    IF Len(rest) = 1
    THEN LET sf == split_first(rest) IN
         IF ~IsOk(sf) THEN Err(InvalidInstruction) ELSE Ok(Initialize(sf.val[1]))
    ELSE Err(InvalidInstruction)

\* Mutant of AmmInstruction::unpack: a tag the match does not know is
\* reported with an error of its own.
AmmInstruction_unpack_typed(input) ==
    LET sf == split_first(input) IN
    IF ~IsOk(sf) THEN Err(InvalidInstruction)
    ELSE LET tag == sf.val[1]
             rest == sf.val[2]
         IN CASE tag = 0 -> unpack_initialize(rest)
              [] tag \in {1, 4, 5} ->
                   LET f == unpack_2(rest) IN
                   IF ~IsOk(f) THEN f
                   ELSE Ok(CASE tag = 1 -> Swap(f.val[1], f.val[2])
                             [] tag = 4 ->
                                  DepositSingleTokenTypeExactAmountIn(f.val[1], f.val[2])
                             [] tag = 5 ->
                                  WithdrawSingleTokenTypeExactAmountOut(f.val[1], f.val[2]))
              [] tag \in {2, 3} ->
                   LET f == unpack_3(rest) IN
                   IF ~IsOk(f) THEN f
                   ELSE Ok(IF tag = 2
                           THEN DepositAllTokenTypes(f.val[1], f.val[2], f.val[3])
                           ELSE WithdrawAllTokenTypes(f.val[1], f.val[2], f.val[3]))
              [] OTHER -> Err(InvalidAccountData)

\* AmmInstruction::unpack
AmmInstruction_unpack(input) ==
    LET sf == split_first(input) IN
    IF ~IsOk(sf) THEN Err(InvalidInstruction)
    ELSE LET tag == sf.val[1]
             rest == sf.val[2]
         IN CASE tag = 0 -> unpack_initialize(rest)
              [] tag = 1 ->
                   LET f == unpack_2(rest) IN
                   IF ~IsOk(f) THEN f ELSE Ok(Swap(f.val[1], f.val[2]))
              [] tag = 2 ->
                   LET f == unpack_3(rest) IN
                   IF ~IsOk(f) THEN f
                   ELSE Ok(DepositAllTokenTypes(f.val[1], f.val[2], f.val[3]))
              [] tag = 3 ->
                   LET f == unpack_3(rest) IN
                   IF ~IsOk(f) THEN f
                   ELSE Ok(WithdrawAllTokenTypes(f.val[1], f.val[2], f.val[3]))
              [] tag = 4 ->
                   LET f == unpack_2(rest) IN
                   IF ~IsOk(f) THEN f
                   ELSE Ok(DepositSingleTokenTypeExactAmountIn(f.val[1], f.val[2]))
              [] tag = 5 ->
                   LET f == unpack_2(rest) IN
                   IF ~IsOk(f) THEN f
                   ELSE Ok(WithdrawSingleTokenTypeExactAmountOut(f.val[1], f.val[2]))
              [] OTHER -> Err(InvalidInstruction)

\* Mutant of AmmInstruction::pack: Swap's two fields are written in the
\* opposite order, and Initialize's nonce is followed by a padding byte.
AmmInstruction_pack_misordered(self) ==
    CASE self.variant = "Initialize" -> <<0, self.nonce, 0>>
      [] self.variant = "Swap" ->
           <<1>> \o to_le_bytes(self.minimum_amount_out) \o to_le_bytes(self.amount_in)
      [] self.variant = "DepositAllTokenTypes" ->
           <<2>> \o to_le_bytes(self.pool_token_amount)
                 \o to_le_bytes(self.maximum_token_a_amount)
                 \o to_le_bytes(self.maximum_token_b_amount)
      [] self.variant = "WithdrawAllTokenTypes" ->
           <<3>> \o to_le_bytes(self.pool_token_amount)
                 \o to_le_bytes(self.minimum_token_a_amount)
                 \o to_le_bytes(self.minimum_token_b_amount)
      [] self.variant = "DepositSingleTokenTypeExactAmountIn" ->
           <<4>> \o to_le_bytes(self.source_token_amount)
                 \o to_le_bytes(self.minimum_pool_token_amount)
      [] self.variant = "WithdrawSingleTokenTypeExactAmountOut" ->
           <<5>> \o to_le_bytes(self.destination_token_amount)
                 \o to_le_bytes(self.maximum_pool_token_amount)

\* AmmInstruction::pack
AmmInstruction_pack(self) ==
    CASE self.variant = "Initialize" -> <<0, self.nonce>>
      [] self.variant = "Swap" ->
           <<1>> \o to_le_bytes(self.amount_in) \o to_le_bytes(self.minimum_amount_out)
      [] self.variant = "DepositAllTokenTypes" ->
           <<2>> \o to_le_bytes(self.pool_token_amount)
                 \o to_le_bytes(self.maximum_token_a_amount)
                 \o to_le_bytes(self.maximum_token_b_amount)
      [] self.variant = "WithdrawAllTokenTypes" ->
           <<3>> \o to_le_bytes(self.pool_token_amount)
                 \o to_le_bytes(self.minimum_token_a_amount)
                 \o to_le_bytes(self.minimum_token_b_amount)
      [] self.variant = "DepositSingleTokenTypeExactAmountIn" ->
           <<4>> \o to_le_bytes(self.source_token_amount)
                 \o to_le_bytes(self.minimum_pool_token_amount)
      [] self.variant = "WithdrawSingleTokenTypeExactAmountOut" ->
           <<5>> \o to_le_bytes(self.destination_token_amount)
                 \o to_le_bytes(self.maximum_pool_token_amount)

----------------------------------------------------------------------------
(* Account state: SwapV1, ProgramState and the SwapVersion wrapper.        *)

PUBKEY_BYTES == 32

\* const LEN of impl Pack for SwapV1
SwapV1_LEN == 290

\* const LEN of impl Pack for ProgramState
ProgramState_LEN == 130

\* SwapVersion::LATEST_LEN
LATEST_LEN == 1 + SwapV1_LEN

\* The field widths given to array_refs! / mut_array_refs! for SwapV1.
SwapV1_widths == <<1, 1, 32, 32, 32, 32, 32, 32, 32, 32, 32>>

\* Mutant of the ProgramState widths: the fees and the curve are given each
\* other's width.
ProgramState_widths_swapped == <<1, 32, 32, 8, 33, 24>>

\* The field widths given to array_refs! / mut_array_refs! for ProgramState.
ProgramState_widths == <<1, 32, 32, 8, 24, 33>>

\* array_refs!: the array cut into consecutive pieces of the given widths.
RECURSIVE array_refs(_, _)
array_refs(arr, widths) ==
    IF Len(widths) = 0 THEN <<>>
    ELSE <<SliceTo(arr, Head(widths))>>
         \o array_refs(SliceFrom(arr, Head(widths)), Tail(widths))

\* array_ref![input, 0, len] / array_mut_ref!: input[0..len], a panic when short.
array_ref(input, len) ==
    IF Len(input) < len THEN Panicked ELSE Ok(SliceTo(input, len))

\* mut_array_refs! followed by the writes: the pieces laid out consecutively.
RECURSIVE write_refs(_)
write_refs(pieces) ==
    IF Len(pieces) = 0 THEN <<>> ELSE Head(pieces) \o write_refs(Tail(pieces))

\* `flag as u8` of a bool.
bool_as_u8(b) == IF b THEN 1 ELSE 0

\* Mutant of the match on the is_initialized byte: every non-zero byte counts
\* as true.
unpack_bool_nonzero(piece) ==
    IF piece = <<0>> THEN Ok(FALSE) ELSE Ok(TRUE)

\* The match on the is_initialized byte in unpack_from_slice.
unpack_bool(piece) ==
    CASE piece = <<0>> -> Ok(FALSE)
      [] piece = <<1>> -> Ok(TRUE)
      [] OTHER -> Err(InvalidAccountData)

\* Mutant of SwapV1::pack_into_slice: the two mints are written in each
\* other's place.
SwapV1_pack_into_slice_swapped(self, output) ==
    LET out == array_ref(output, SwapV1_LEN) IN
    IF IsPanic(out) THEN Panicked
    ELSE Ok(write_refs(<<
             <<bool_as_u8(self.is_initialized)>>,
             <<self.nonce>>,
             self.amm_id,
             self.dex_program_id,
             self.market_id,
             self.token_program_id,
             self.token_a,
             self.token_b,
             self.pool_mint,
             self.token_b_mint,
             self.token_a_mint>>) \o SliceFrom(output, SwapV1_LEN))

\* <SwapV1 as Pack>::pack_into_slice: the buffer after the call, or a panic.
SwapV1_pack_into_slice(self, output) ==
    LET out == array_ref(output, SwapV1_LEN) IN
    IF IsPanic(out) THEN Panicked
    ELSE Ok(write_refs(<<
             <<bool_as_u8(self.is_initialized)>>,
             <<self.nonce>>,
             self.amm_id,
             self.dex_program_id,
             self.market_id,
             self.token_program_id,
             self.token_a,
             self.token_b,
             self.pool_mint,
             self.token_a_mint,
             self.token_b_mint>>) \o SliceFrom(output, SwapV1_LEN))

\* Mutant of SwapV1::unpack_from_slice: the length is not checked before
\* the array is taken.
SwapV1_unpack_from_slice_unchecked(input) ==
    LET arr == array_ref(input, SwapV1_LEN) IN
    IF IsPanic(arr) THEN Panicked
    ELSE LET f == array_refs(arr.val, SwapV1_widths)
             is_initialized == unpack_bool(f[1])
         IN IF ~IsOk(is_initialized) THEN is_initialized
            ELSE Ok([is_initialized |-> is_initialized.val,
                     nonce |-> f[2][1],
                     amm_id |-> f[3],
                     dex_program_id |-> f[4],
                     market_id |-> f[5],
                     token_program_id |-> f[6],
                     token_a |-> f[7],
                     token_b |-> f[8],
                     pool_mint |-> f[9],
                     token_a_mint |-> f[10],
                     token_b_mint |-> f[11]])

\* Mutant of SwapV1::unpack_from_slice: a buffer longer than LEN is refused
\* like a shorter one.
SwapV1_unpack_from_slice_exact(input) ==
    IF Len(input) # SwapV1_LEN THEN Err(InvalidInstruction)
    ELSE LET arr == array_ref(input, SwapV1_LEN) IN
         IF IsPanic(arr) THEN Panicked
         ELSE LET f == array_refs(arr.val, SwapV1_widths)
                  is_initialized == unpack_bool(f[1])
              IN IF ~IsOk(is_initialized) THEN is_initialized
                 ELSE Ok([is_initialized |-> is_initialized.val,
                          nonce |-> f[2][1],
                          amm_id |-> f[3],
                          dex_program_id |-> f[4],
                          market_id |-> f[5],
                          token_program_id |-> f[6],
                          token_a |-> f[7],
                          token_b |-> f[8],
                          pool_mint |-> f[9],
                          token_a_mint |-> f[10],
                          token_b_mint |-> f[11]])

\* Mutant of SwapV1::unpack_from_slice: market_id and token_program_id are
\* read from each other's place.
SwapV1_unpack_from_slice_reordered(input) ==
    IF Len(input) < SwapV1_LEN THEN Err(InvalidInstruction)
    ELSE LET arr == array_ref(input, SwapV1_LEN) IN
         IF IsPanic(arr) THEN Panicked
         ELSE LET f == array_refs(arr.val, SwapV1_widths)
                  is_initialized == unpack_bool(f[1])
              IN IF ~IsOk(is_initialized) THEN is_initialized
                 ELSE Ok([is_initialized |-> is_initialized.val,
                          nonce |-> f[2][1],
                          amm_id |-> f[3],
                          dex_program_id |-> f[4],
                          market_id |-> f[6],
                          token_program_id |-> f[5],
                          token_a |-> f[7],
                          token_b |-> f[8],
                          pool_mint |-> f[9],
                          token_a_mint |-> f[10],
                          token_b_mint |-> f[11]])

\* <SwapV1 as Pack>::unpack_from_slice
SwapV1_unpack_from_slice(input) ==
    IF Len(input) < SwapV1_LEN THEN Err(InvalidInstruction)
    ELSE LET arr == array_ref(input, SwapV1_LEN) IN
         IF IsPanic(arr) THEN Panicked
         ELSE LET f == array_refs(arr.val, SwapV1_widths)
                  is_initialized == unpack_bool(f[1])
              IN IF ~IsOk(is_initialized) THEN is_initialized
                 ELSE Ok([is_initialized |-> is_initialized.val,
                          nonce |-> f[2][1],
                          amm_id |-> f[3],
                          dex_program_id |-> f[4],
                          market_id |-> f[5],
                          token_program_id |-> f[6],
                          token_a |-> f[7],
                          token_b |-> f[8],
                          pool_mint |-> f[9],
                          token_a_mint |-> f[10],
                          token_b_mint |-> f[11]])

\* impl IsInitialized for SwapV1
SwapV1_is_initialized(self) == self.is_initialized

\* Pack::unpack_unchecked as SwapV1 inherits it: the length must be exactly LEN.
SwapV1_unpack_unchecked(input) ==
    IF Len(input) # SwapV1_LEN THEN Err(InvalidAccountData)
    ELSE SwapV1_unpack_from_slice(input)

\* Pack::unpack as SwapV1 inherits it: unpack_unchecked, then the record must
\* be initialized.
SwapV1_unpack(input) ==
    LET value == SwapV1_unpack_unchecked(input) IN
    IF ~IsOk(value) THEN value
    ELSE IF SwapV1_is_initialized(value.val) THEN value
         ELSE Err(UninitializedAccount)

\* Pack::pack as SwapV1 inherits it: the outcome and the buffer after the call.
SwapV1_pack(src, dst) ==
    IF Len(dst) # SwapV1_LEN THEN [res |-> Err(InvalidAccountData), dst |-> dst]
    ELSE LET out == SwapV1_pack_into_slice(src, dst) IN
         IF IsPanic(out) THEN [res |-> Panicked, dst |-> dst]
         ELSE [res |-> Ok("unit"), dst |-> out.val]

\* Mutant of SwapVersion::pack: the version byte is not written.
SwapVersion_pack_unversioned(swap_info, dst) ==
    IF Len(dst) = 0 THEN [res |-> Panicked, dst |-> dst]
    ELSE LET inner == SwapV1_pack(swap_info, SliceFrom(dst, 1)) IN
         [res |-> inner.res, dst |-> SliceTo(dst, 1) \o inner.dst]

\* SwapVersion::pack of SwapVersion::SwapV1(swap_info): the outcome and the
\* buffer after the call.  dst[0] = 1 panics on an empty buffer.
SwapVersion_pack(swap_info, dst) ==
    IF Len(dst) = 0 THEN [res |-> Panicked, dst |-> dst]
    ELSE LET inner == SwapV1_pack(swap_info, SliceFrom(dst, 1)) IN
         [res |-> inner.res, dst |-> <<1>> \o inner.dst]

\* Mutant of SwapVersion::unpack: another version byte is reported with the
\* error of a malformed account.
SwapVersion_unpack_same_error(input) ==
    LET sf == split_first(input) IN
    IF ~IsOk(sf) THEN Err(InvalidAccountData)
    ELSE LET version == sf.val[1]
             rest == sf.val[2]
         IN IF version = 1 THEN SwapV1_unpack(rest)
            ELSE Err(InvalidAccountData)

\* SwapVersion::unpack: the boxed AmmStatus is the SwapV1 record.
SwapVersion_unpack(input) ==
    LET sf == split_first(input) IN
    IF ~IsOk(sf) THEN Err(InvalidAccountData)
    ELSE LET version == sf.val[1]
             rest == sf.val[2]
         IN IF version = 1 THEN SwapV1_unpack(rest)
            ELSE Err(UninitializedAccount)

\* impl AmmStatus for SwapV1: the accessors of the handle.
AmmStatus_is_initialized(self) == self.is_initialized

AmmStatus_nonce(self) == self.nonce

AmmStatus_token_program_id(self) == self.token_program_id

AmmStatus_token_a_account(self) == self.token_a

AmmStatus_token_b_account(self) == self.token_b

AmmStatus_pool_mint(self) == self.pool_mint

AmmStatus_token_a_mint(self) == self.token_a_mint

AmmStatus_token_b_mint(self) == self.token_b_mint

\* Mutant of SwapVersion::is_initialized: a decode error is handed on to the
\* caller instead of becoming false.
SwapVersion_is_initialized_propagating(input) ==
    LET r == SwapVersion_unpack(input) IN
    IF IsOk(r) THEN Ok(AmmStatus_is_initialized(r.val)) ELSE r

\* SwapVersion::is_initialized: a decode error becomes false.
SwapVersion_is_initialized(input) ==
    LET r == SwapVersion_unpack(input) IN
    IF IsPanic(r) THEN Panicked
    ELSE IF IsOk(r) THEN Ok(AmmStatus_is_initialized(r.val)) ELSE Ok(FALSE)

\* Fees, a fixed-size numeric record of 24 bytes: three u64, little-endian.
Fees_pack_into_slice(self) ==
    to_le_bytes(self[1]) \o to_le_bytes(self[2]) \o to_le_bytes(self[3])

Fees_unpack_from_slice(input) ==
    Ok(<<from_le_bytes(SubSeq(input, 1, 8)), from_le_bytes(SubSeq(input, 9, 16)),
         from_le_bytes(SubSeq(input, 17, 24))>>)

\* SwapCurve, a tagged parameterization of 33 bytes: the curve tag, then 32
\* bytes of parameters.
SwapCurve_pack_into_slice(self) == <<self.curve_type>> \o self.calculator

SwapCurve_unpack_from_slice(input) ==
    Ok([curve_type |-> input[1], calculator |-> SliceFrom(input, 1)])

\* <ProgramState as Pack>::pack_into_slice: the buffer after the call, or a panic.
ProgramState_pack_into_slice(self, output) ==
    LET out == array_ref(output, ProgramState_LEN) IN
    IF IsPanic(out) THEN Panicked
    ELSE Ok(write_refs(<<
             <<bool_as_u8(self.is_initialized)>>,
             self.state_owner,
             self.fee_owner,
             to_le_bytes(self.initial_supply),
             Fees_pack_into_slice(self.fees),
             SwapCurve_pack_into_slice(self.swap_curve)>>)
            \o SliceFrom(output, ProgramState_LEN))

\* <ProgramState as Pack>::unpack_from_slice
ProgramState_unpack_from_slice(input) ==
    IF Len(input) < ProgramState_LEN THEN Err(InvalidInstruction)
    ELSE LET arr == array_ref(input, ProgramState_LEN) IN
         IF IsPanic(arr) THEN Panicked
         ELSE LET f == array_refs(arr.val, ProgramState_widths)
                  is_initialized == unpack_bool(f[1])
                  fees == Fees_unpack_from_slice(f[5])
                  swap_curve == SwapCurve_unpack_from_slice(f[6])
              IN IF ~IsOk(is_initialized) THEN is_initialized
                 ELSE IF ~IsOk(fees) THEN fees
                 ELSE IF ~IsOk(swap_curve) THEN swap_curve
                 ELSE Ok([is_initialized |-> is_initialized.val,
                          state_owner |-> f[2],
                          fee_owner |-> f[3],
                          initial_supply |-> from_le_bytes(f[4]),
                          fees |-> fees.val,
                          swap_curve |-> swap_curve.val])

----------------------------------------------------------------------------
(* The call builders of amm_instruction.rs.                                *)

\* AccountMeta::new: a writable account reference.
AccountMeta_new(pubkey, is_signer) ==
    [pubkey |-> pubkey, is_signer |-> is_signer, is_writable |-> TRUE]

\* AccountMeta::new_readonly: a read-only account reference.
AccountMeta_new_readonly(pubkey, is_signer) ==
    [pubkey |-> pubkey, is_signer |-> is_signer, is_writable |-> FALSE]

\* The Instruction a builder returns.
Instruction(program_id, accounts, payload) ==
    [program_id |-> program_id, accounts |-> accounts, data |-> payload]

\* Mutant of initialize: the reference to the dex program is left out.
initialize_without_dex(program_id, token_program_id, swap_pubkey, authority_pubkey, state_pubkey, amm_id, token_a_pubkey, token_b_pubkey, pool_pubkey, destination_pubkey, market_pubkey, dex_pubkey, nonce) ==
    Ok(Instruction(program_id,
        <<AccountMeta_new(swap_pubkey, TRUE),
          AccountMeta_new_readonly(authority_pubkey, FALSE),
          AccountMeta_new_readonly(state_pubkey, FALSE),
          AccountMeta_new_readonly(amm_id, FALSE),
          AccountMeta_new_readonly(token_a_pubkey, FALSE),
          AccountMeta_new_readonly(token_b_pubkey, FALSE),
          AccountMeta_new(pool_pubkey, FALSE),
          AccountMeta_new(destination_pubkey, FALSE),
          AccountMeta_new(market_pubkey, FALSE),
          AccountMeta_new_readonly(token_program_id, FALSE)>>,
        AmmInstruction_pack(Initialize(nonce))))

\* pub fn initialize
initialize(program_id, token_program_id, swap_pubkey, authority_pubkey, state_pubkey, amm_id, token_a_pubkey, token_b_pubkey, pool_pubkey, destination_pubkey, market_pubkey, dex_pubkey, nonce) ==
    Ok(Instruction(program_id,
        <<AccountMeta_new(swap_pubkey, TRUE),
          AccountMeta_new_readonly(authority_pubkey, FALSE),
          AccountMeta_new_readonly(state_pubkey, FALSE),
          AccountMeta_new_readonly(amm_id, FALSE),
          AccountMeta_new_readonly(token_a_pubkey, FALSE),
          AccountMeta_new_readonly(token_b_pubkey, FALSE),
          AccountMeta_new(pool_pubkey, FALSE),
          AccountMeta_new(destination_pubkey, FALSE),
          AccountMeta_new(market_pubkey, FALSE),
          AccountMeta_new_readonly(token_program_id, FALSE),
          AccountMeta_new_readonly(dex_pubkey, FALSE)>>,
        AmmInstruction_pack(Initialize(nonce))))

\* pub fn deposit_all_token_types
deposit_all_token_types(program_id, token_program_id, swap_pubkey, authority_pubkey, user_transfer_authority_pubkey, state_pubkey, deposit_token_a_pubkey, deposit_token_b_pubkey, swap_token_a_pubkey, swap_token_b_pubkey, pool_mint_pubkey, destination_pubkey, instruction) ==
    Ok(Instruction(program_id,
        <<AccountMeta_new_readonly(swap_pubkey, FALSE),
          AccountMeta_new_readonly(authority_pubkey, FALSE),
          AccountMeta_new_readonly(user_transfer_authority_pubkey, TRUE),
          AccountMeta_new_readonly(state_pubkey, FALSE),
          AccountMeta_new(deposit_token_a_pubkey, FALSE),
          AccountMeta_new(deposit_token_b_pubkey, FALSE),
          AccountMeta_new(swap_token_a_pubkey, FALSE),
          AccountMeta_new(swap_token_b_pubkey, FALSE),
          AccountMeta_new(pool_mint_pubkey, FALSE),
          AccountMeta_new(destination_pubkey, FALSE),
          AccountMeta_new_readonly(token_program_id, FALSE)>>,
        AmmInstruction_pack(DepositAllTokenTypes(
            instruction.pool_token_amount,
            instruction.maximum_token_a_amount,
            instruction.maximum_token_b_amount))))

\* pub fn withdraw_all_token_types
withdraw_all_token_types(program_id, token_program_id, swap_pubkey, authority_pubkey, user_transfer_authority_pubkey, state_pubkey, pool_mint_pubkey, source_pubkey, swap_token_a_pubkey, swap_token_b_pubkey, destination_token_a_pubkey, destination_token_b_pubkey, instruction) ==
    Ok(Instruction(program_id,
        <<AccountMeta_new_readonly(swap_pubkey, FALSE),
          AccountMeta_new_readonly(authority_pubkey, FALSE),
          AccountMeta_new_readonly(user_transfer_authority_pubkey, TRUE),
          AccountMeta_new_readonly(state_pubkey, FALSE),
          AccountMeta_new(pool_mint_pubkey, FALSE),
          AccountMeta_new(source_pubkey, FALSE),
          AccountMeta_new(swap_token_a_pubkey, FALSE),
          AccountMeta_new(swap_token_b_pubkey, FALSE),
          AccountMeta_new(destination_token_a_pubkey, FALSE),
          AccountMeta_new(destination_token_b_pubkey, FALSE),
          AccountMeta_new_readonly(token_program_id, FALSE)>>,
        AmmInstruction_pack(WithdrawAllTokenTypes(
            instruction.pool_token_amount,
            instruction.minimum_token_a_amount,
            instruction.minimum_token_b_amount))))

\* pub fn deposit_single_token_type_exact_amount_in
deposit_single_token_type_exact_amount_in(program_id, token_program_id, swap_pubkey, authority_pubkey, user_transfer_authority_pubkey, source_token_pubkey, swap_token_a_pubkey, swap_token_b_pubkey, pool_mint_pubkey, destination_pubkey, instruction) ==
    Ok(Instruction(program_id,
        <<AccountMeta_new_readonly(swap_pubkey, FALSE),
          AccountMeta_new_readonly(authority_pubkey, FALSE),
          AccountMeta_new_readonly(user_transfer_authority_pubkey, TRUE),
          AccountMeta_new(source_token_pubkey, FALSE),
          AccountMeta_new(swap_token_a_pubkey, FALSE),
          AccountMeta_new(swap_token_b_pubkey, FALSE),
          AccountMeta_new(pool_mint_pubkey, FALSE),
          AccountMeta_new(destination_pubkey, FALSE),
          AccountMeta_new_readonly(token_program_id, FALSE)>>,
        AmmInstruction_pack(DepositSingleTokenTypeExactAmountIn(
            instruction.source_token_amount,
            instruction.minimum_pool_token_amount))))

\* pub fn withdraw_single_token_type_exact_amount_out
withdraw_single_token_type_exact_amount_out(program_id, token_program_id, swap_pubkey, authority_pubkey, user_transfer_authority_pubkey, pool_mint_pubkey, pool_token_source_pubkey, swap_token_a_pubkey, swap_token_b_pubkey, destination_pubkey, instruction) ==
    Ok(Instruction(program_id,
        <<AccountMeta_new_readonly(swap_pubkey, FALSE),
          AccountMeta_new_readonly(authority_pubkey, FALSE),
          AccountMeta_new_readonly(user_transfer_authority_pubkey, TRUE),
          AccountMeta_new(pool_mint_pubkey, FALSE),
          AccountMeta_new(pool_token_source_pubkey, FALSE),
          AccountMeta_new(swap_token_a_pubkey, FALSE),
          AccountMeta_new(swap_token_b_pubkey, FALSE),
          AccountMeta_new(destination_pubkey, FALSE),
          AccountMeta_new_readonly(token_program_id, FALSE)>>,
        AmmInstruction_pack(WithdrawSingleTokenTypeExactAmountOut(
            instruction.destination_token_amount,
            instruction.maximum_pool_token_amount))))

\* Mutant of swap: the payload is packed as the single-sided deposit, which
\* has the same two u64 fields behind another tag.
swap_packed_as_deposit(program_id, token_program_id, swap_pubkey, authority_pubkey, user_transfer_authority_pubkey, state_pubkey, source_pubkey, swap_source_pubkey, swap_destination_pubkey, destination_pubkey, pool_mint_pubkey, fee_account_pubkey, instruction) ==
    Ok(Instruction(program_id,
        <<AccountMeta_new_readonly(swap_pubkey, FALSE),
          AccountMeta_new_readonly(authority_pubkey, FALSE),
          AccountMeta_new_readonly(user_transfer_authority_pubkey, TRUE),
          AccountMeta_new_readonly(state_pubkey, TRUE),
          AccountMeta_new(source_pubkey, FALSE),
          AccountMeta_new(swap_source_pubkey, FALSE),
          AccountMeta_new(swap_destination_pubkey, FALSE),
          AccountMeta_new(destination_pubkey, FALSE),
          AccountMeta_new(pool_mint_pubkey, FALSE),
          AccountMeta_new(fee_account_pubkey, FALSE),
          AccountMeta_new_readonly(token_program_id, FALSE)>>,
        AmmInstruction_pack(DepositSingleTokenTypeExactAmountIn(
            instruction.amount_in, instruction.minimum_amount_out))))

\* pub fn swap
swap(program_id, token_program_id, swap_pubkey, authority_pubkey, user_transfer_authority_pubkey, state_pubkey, source_pubkey, swap_source_pubkey, swap_destination_pubkey, destination_pubkey, pool_mint_pubkey, fee_account_pubkey, instruction) ==
    Ok(Instruction(program_id,
        <<AccountMeta_new_readonly(swap_pubkey, FALSE),
          AccountMeta_new_readonly(authority_pubkey, FALSE),
          AccountMeta_new_readonly(user_transfer_authority_pubkey, TRUE),
          AccountMeta_new_readonly(state_pubkey, TRUE),
          AccountMeta_new(source_pubkey, FALSE),
          AccountMeta_new(swap_source_pubkey, FALSE),
          AccountMeta_new(swap_destination_pubkey, FALSE),
          AccountMeta_new(destination_pubkey, FALSE),
          AccountMeta_new(pool_mint_pubkey, FALSE),
          AccountMeta_new(fee_account_pubkey, FALSE),
          AccountMeta_new_readonly(token_program_id, FALSE)>>,
        AmmInstruction_pack(Swap(instruction.amount_in,
                                 instruction.minimum_amount_out))))

\* One numbered line of a variant's doc comment: `[writable]`, `[signer]`,
\* `[writable, signer]` or `[]`.
Annotation(is_writable, is_signer) ==
    [is_writable |-> is_writable, is_signer |-> is_signer]

\* The numbered account list in the doc comment of AmmInstruction::Initialize.
Initialize_documented ==
    <<Annotation(TRUE, TRUE), Annotation(FALSE, FALSE), Annotation(FALSE, FALSE),
      Annotation(FALSE, FALSE), Annotation(FALSE, FALSE), Annotation(TRUE, FALSE),
      Annotation(FALSE, FALSE), Annotation(FALSE, FALSE), Annotation(TRUE, FALSE),
      Annotation(FALSE, FALSE), Annotation(FALSE, FALSE), Annotation(FALSE, FALSE)>>

\* The numbered account list in the doc comment of AmmInstruction::Swap.
Swap_documented ==
    <<Annotation(FALSE, FALSE), Annotation(FALSE, FALSE), Annotation(FALSE, FALSE),
      Annotation(TRUE, FALSE), Annotation(TRUE, FALSE), Annotation(TRUE, FALSE),
      Annotation(TRUE, FALSE), Annotation(TRUE, FALSE), Annotation(TRUE, FALSE),
      Annotation(TRUE, FALSE), Annotation(FALSE, FALSE), Annotation(FALSE, FALSE)>>

\* The numbered account list in the doc comment of
\* AmmInstruction::DepositAllTokenTypes.
DepositAllTokenTypes_documented ==
    <<Annotation(FALSE, FALSE), Annotation(FALSE, FALSE), Annotation(FALSE, FALSE),
      Annotation(TRUE, FALSE), Annotation(TRUE, FALSE), Annotation(TRUE, FALSE),
      Annotation(TRUE, FALSE), Annotation(TRUE, FALSE), Annotation(TRUE, FALSE),
      Annotation(FALSE, FALSE)>>

\* The numbered account list in the doc comment of
\* AmmInstruction::WithdrawAllTokenTypes.
WithdrawAllTokenTypes_documented ==
    <<Annotation(FALSE, FALSE), Annotation(FALSE, FALSE), Annotation(FALSE, FALSE),
      Annotation(TRUE, FALSE), Annotation(TRUE, FALSE), Annotation(TRUE, FALSE),
      Annotation(TRUE, FALSE), Annotation(TRUE, FALSE), Annotation(TRUE, FALSE),
      Annotation(TRUE, FALSE), Annotation(FALSE, FALSE)>>

\* The numbered account list in the doc comment of
\* AmmInstruction::DepositSingleTokenTypeExactAmountIn.
DepositSingleTokenTypeExactAmountIn_documented ==
    <<Annotation(FALSE, FALSE), Annotation(FALSE, FALSE), Annotation(FALSE, FALSE),
      Annotation(TRUE, FALSE), Annotation(TRUE, FALSE), Annotation(TRUE, FALSE),
      Annotation(TRUE, FALSE), Annotation(TRUE, FALSE), Annotation(FALSE, FALSE)>>

\* The numbered account list in the doc comment of
\* AmmInstruction::WithdrawSingleTokenTypeExactAmountOut.
WithdrawSingleTokenTypeExactAmountOut_documented ==
    <<Annotation(FALSE, FALSE), Annotation(FALSE, FALSE), Annotation(FALSE, FALSE),
      Annotation(TRUE, FALSE), Annotation(TRUE, FALSE), Annotation(TRUE, FALSE),
      Annotation(TRUE, FALSE), Annotation(TRUE, FALSE), Annotation(TRUE, FALSE),
      Annotation(FALSE, FALSE)>>

----------------------------------------------------------------------------
(* The farm instructions and their call builders (farm instruction.rs).    *)

\* The variants of FarmInstruction.
SetProgramData(super_owner, fee_owner, allowed_creator, amm_program_id, farm_fee, harvest_fee_numerator, harvest_fee_denominator) ==
    [variant |-> "SetProgramData", super_owner |-> super_owner,
     fee_owner |-> fee_owner, allowed_creator |-> allowed_creator,
     amm_program_id |-> amm_program_id, farm_fee |-> farm_fee,
     harvest_fee_numerator |-> harvest_fee_numerator,
     harvest_fee_denominator |-> harvest_fee_denominator]

InitializeFarm(nonce, start_timestamp, end_timestamp) ==
    [variant |-> "InitializeFarm", nonce |-> nonce,
     start_timestamp |-> start_timestamp, end_timestamp |-> end_timestamp]

Deposit(amount) == [variant |-> "Deposit", amount |-> amount]

Withdraw(amount) == [variant |-> "Withdraw", amount |-> amount]

AddReward(amount) == [variant |-> "AddReward", amount |-> amount]

PayFarmFee(amount) == [variant |-> "PayFarmFee", amount |-> amount]

\* try_to_vec of the derived BorshSerialize: the index of the variant as one
\* byte, then the fields in declared order, identifiers as their 32 bytes and
\* u64 little-endian.  Writing to a Vec does not fail.
FarmInstruction_try_to_vec(self) ==
    CASE self.variant = "SetProgramData" ->
            Ok(<<0>> \o self.super_owner \o self.fee_owner \o self.allowed_creator
               \o self.amm_program_id \o to_le_bytes(self.farm_fee)
               \o to_le_bytes(self.harvest_fee_numerator)
               \o to_le_bytes(self.harvest_fee_denominator))
      [] self.variant = "InitializeFarm" ->
            Ok(<<1, self.nonce>> \o to_le_bytes(self.start_timestamp)
               \o to_le_bytes(self.end_timestamp))
      [] self.variant = "Deposit" -> Ok(<<2>> \o to_le_bytes(self.amount))
      [] self.variant = "Withdraw" -> Ok(<<3>> \o to_le_bytes(self.amount))
      [] self.variant = "AddReward" -> Ok(<<4>> \o to_le_bytes(self.amount))
      [] self.variant = "PayFarmFee" -> Ok(<<5>> \o to_le_bytes(self.amount))

\* The Instruction a farm builder returns once .unwrap() has taken the data
\* out of try_to_vec's result; a panic when that result is an error.
FarmCall(program_id, accounts, packed) ==
    IF IsOk(packed) THEN Instruction(program_id, accounts, packed.val)
    ELSE Panicked

\* sysvar::clock::id(), SysvarC1ock11111111111111111111111111111111.
sysvar_clock_id ==
    <<6, 167, 213, 23, 24, 199, 116, 201, 40, 86, 99, 152, 105, 29, 94, 182,
      139, 94, 184, 163, 155, 75, 109, 92, 115, 85, 91, 33, 0, 0, 0, 0>>

\* pub fn initialize_program
initialize_program(program_data_account, super_owner, new_super_owner, fee_owner, allowed_creator, amm_program_id, farm_fee, harvest_fee_numerator, harvest_fee_denominator, program_id) ==
    FarmCall(program_id,
        <<AccountMeta_new(program_data_account, FALSE),
          AccountMeta_new(super_owner, TRUE)>>,
        FarmInstruction_try_to_vec(SetProgramData(
            new_super_owner, fee_owner, allowed_creator, amm_program_id,
            farm_fee, harvest_fee_numerator, harvest_fee_denominator)))

\* pub fn initialize_farm
initialize_farm(farm_id, authority, owner, pool_lp_token_account, pool_reward_token_account, pool_mint_address, reward_mint_address, amm_id, program_data_account, nonce, start_timestamp, end_timestamp, program_id) ==
    FarmCall(program_id,
        <<AccountMeta_new(farm_id, FALSE),
          AccountMeta_new(authority, FALSE),
          AccountMeta_new_readonly(owner, TRUE),
          AccountMeta_new(pool_lp_token_account, FALSE),
          AccountMeta_new(pool_reward_token_account, FALSE),
          AccountMeta_new_readonly(pool_mint_address, FALSE),
          AccountMeta_new_readonly(reward_mint_address, FALSE),
          AccountMeta_new_readonly(amm_id, FALSE),
          AccountMeta_new_readonly(program_data_account, FALSE)>>,
        FarmInstruction_try_to_vec(
            InitializeFarm(nonce, start_timestamp, end_timestamp)))

\* Mutant of deposit: the depositor is not flagged signer.
deposit_unsigned(farm_id, authority, owner, user_info_account, user_lp_token_account, pool_lp_token_account, user_reward_token_account, pool_reward_token_account, pool_lp_mint, fee_reward_ata, program_data_account, token_program_id, amount, program_id) ==
    FarmCall(program_id,
        <<AccountMeta_new(farm_id, FALSE),
          AccountMeta_new_readonly(authority, FALSE),
          AccountMeta_new_readonly(owner, FALSE),
          AccountMeta_new(user_info_account, FALSE),
          AccountMeta_new(user_lp_token_account, FALSE),
          AccountMeta_new(pool_lp_token_account, FALSE),
          AccountMeta_new(user_reward_token_account, FALSE),
          AccountMeta_new(pool_reward_token_account, FALSE),
          AccountMeta_new(pool_lp_mint, FALSE),
          AccountMeta_new(fee_reward_ata, FALSE),
          AccountMeta_new(program_data_account, FALSE),
          AccountMeta_new(token_program_id, FALSE),
          AccountMeta_new_readonly(sysvar_clock_id, FALSE)>>,
        FarmInstruction_try_to_vec(Deposit(amount)))

\* pub fn deposit
deposit(farm_id, authority, owner, user_info_account, user_lp_token_account, pool_lp_token_account, user_reward_token_account, pool_reward_token_account, pool_lp_mint, fee_reward_ata, program_data_account, token_program_id, amount, program_id) ==
    FarmCall(program_id,
        <<AccountMeta_new(farm_id, FALSE),
          AccountMeta_new_readonly(authority, FALSE),
          AccountMeta_new_readonly(owner, TRUE),
          AccountMeta_new(user_info_account, FALSE),
          AccountMeta_new(user_lp_token_account, FALSE),
          AccountMeta_new(pool_lp_token_account, FALSE),
          AccountMeta_new(user_reward_token_account, FALSE),
          AccountMeta_new(pool_reward_token_account, FALSE),
          AccountMeta_new(pool_lp_mint, FALSE),
          AccountMeta_new(fee_reward_ata, FALSE),
          AccountMeta_new(program_data_account, FALSE),
          AccountMeta_new(token_program_id, FALSE),
          AccountMeta_new_readonly(sysvar_clock_id, FALSE)>>,
        FarmInstruction_try_to_vec(Deposit(amount)))

\* pub fn withdraw
withdraw(farm_id, authority, owner, user_info_account, user_lp_token_account, pool_lp_token_account, user_reward_token_account, pool_reward_token_account, pool_lp_mint_info, fee_reward_ata, program_data_account, token_program_id, amount, program_id) ==
    FarmCall(program_id,
        <<AccountMeta_new(farm_id, FALSE),
          AccountMeta_new_readonly(authority, FALSE),
          AccountMeta_new(owner, TRUE),
          AccountMeta_new(user_info_account, FALSE),
          AccountMeta_new(user_lp_token_account, FALSE),
          AccountMeta_new(pool_lp_token_account, FALSE),
          AccountMeta_new(user_reward_token_account, FALSE),
          AccountMeta_new(pool_reward_token_account, FALSE),
          AccountMeta_new(pool_lp_mint_info, FALSE),
          AccountMeta_new(fee_reward_ata, FALSE),
          AccountMeta_new(program_data_account, FALSE),
          AccountMeta_new(token_program_id, FALSE),
          AccountMeta_new_readonly(sysvar_clock_id, FALSE)>>,
        FarmInstruction_try_to_vec(Withdraw(amount)))

\* pub fn add_reward
add_reward(farm_id, authority, owner, user_reward_token_account, pool_reward_token_account, pool_lp_token_account, pool_lp_mint_info, program_data_account, token_program_id, amount, program_id) ==
    FarmCall(program_id,
        <<AccountMeta_new(farm_id, FALSE),
          AccountMeta_new_readonly(authority, FALSE),
          AccountMeta_new_readonly(owner, TRUE),
          AccountMeta_new(user_reward_token_account, FALSE),
          AccountMeta_new(pool_reward_token_account, FALSE),
          AccountMeta_new(pool_lp_token_account, FALSE),
          AccountMeta_new(pool_lp_mint_info, FALSE),
          AccountMeta_new(program_data_account, FALSE),
          AccountMeta_new(token_program_id, FALSE),
          AccountMeta_new_readonly(sysvar_clock_id, FALSE)>>,
        FarmInstruction_try_to_vec(AddReward(amount)))

\* pub fn pay_farm_fee
pay_farm_fee(farm_id, authority, owner, user_usdc_token_account, fee_usdc_ata, program_data_account, token_program_id, amount, program_id) ==
    FarmCall(program_id,
        <<AccountMeta_new(farm_id, FALSE),
          AccountMeta_new_readonly(authority, FALSE),
          AccountMeta_new_readonly(owner, TRUE),
          AccountMeta_new(user_usdc_token_account, FALSE),
          AccountMeta_new(fee_usdc_ata, FALSE),
          AccountMeta_new(program_data_account, FALSE),
          AccountMeta_new(token_program_id, FALSE)>>,
        FarmInstruction_try_to_vec(PayFarmFee(amount)))

----------------------------------------------------------------------------
(* The values and buffers the model draws its inputs from.                 *)

\* Longest run of raw bytes submitted as a buffer.
MaxRawLen == 3

\* Longest run of bytes appended behind a buffer.
MaxTrail == 2

\* How many bytes at most are cut off the end of a long buffer.
MaxCut == 2

\* Every prefix shorter than this is tried as a truncation.
MaxPrefix == 26

\* The byte a destination buffer holds everywhere before a record is packed.
DstFill == 170

\* Identifier pattern p: 32 bytes that all differ; patterns of different p
\* differ as well, for every p below 256.
KeyPat(p) == [i \in 1..PUBKEY_BYTES |-> (p * (PUBKEY_BYTES + 1) + i) % ByteBase]

\* A u64 whose eight bytes all differ (0x0807060504030201).
U64Pattern == <<513, 1027, 1541, 2055>>

U64Samples == {U64(0), U64(1), U64(990000), U64(1000000), U64Pattern, U64Max}

U64Few == {U64(1), U64Pattern, U64Max}

NonceSamples == {0, 5, 7, 255}

Instructions ==
    {Initialize(n) : n \in NonceSamples}
    \cup {Swap(a, b) : a \in U64Samples, b \in U64Samples}
    \cup {DepositSingleTokenTypeExactAmountIn(a, b) : a \in U64Samples, b \in U64Samples}
    \cup {WithdrawSingleTokenTypeExactAmountOut(a, b) : a \in U64Samples, b \in U64Samples}
    \cup {DepositAllTokenTypes(a, b, c) : a \in U64Few, b \in U64Few, c \in U64Few}
    \cup {WithdrawAllTokenTypes(a, b, c) : a \in U64Few, b \in U64Few, c \in U64Few}

\* A SwapV1 record whose nine identifiers are the patterns p, p+1, .., p+8.
SwapV1Record(init, nonce, p) ==
    [is_initialized |-> init, nonce |-> nonce,
     amm_id |-> KeyPat(p), dex_program_id |-> KeyPat(p + 1),
     market_id |-> KeyPat(p + 2), token_program_id |-> KeyPat(p + 3),
     token_a |-> KeyPat(p + 4), token_b |-> KeyPat(p + 5),
     pool_mint |-> KeyPat(p + 6), token_a_mint |-> KeyPat(p + 7),
     token_b_mint |-> KeyPat(p + 8)]

SwapV1Records ==
    {SwapV1Record(init, n, p) : init \in BOOLEAN, n \in {0, 7, 255}, p \in {0, 3}}

ProgramStateRecords ==
    {[is_initialized |-> init, state_owner |-> KeyPat(1), fee_owner |-> KeyPat(2),
      initial_supply |-> s, fees |-> <<U64(1), U64Pattern, U64Max>>,
      swap_curve |-> [curve_type |-> c, calculator |-> KeyPat(5)]] :
        init \in BOOLEAN, s \in {U64(1000000), U64Pattern}, c \in {0, 3}}

RawBytes == {0, 1, 5, 6, 9, 255}

TrailBytes == {0, 255}

PokeBytes == {0, 1, 2, 3, 4, 5, 6, 7, 255}

\* Offsets (0-based) at which one byte of a packed buffer is overwritten:
\* the tag or version byte, and the byte behind it.
PokeOffsets == {0, 1}

SeqsUpTo(S, n) == UNION {[1..k -> S] : k \in 0..n}

RawInputs == SeqsUpTo(RawBytes, MaxRawLen)

\* A trailer long enough to hold a further u64.
LongTrailer == [i \in 1..9 |-> ByteBase - i]

Trailers == (SeqsUpTo(TrailBytes, MaxTrail) \ {<<>>}) \cup {LongTrailer}

\* A destination buffer of n bytes, as the caller allocates it.
Buffer(n) == [i \in 1..n |-> DstFill]

\* The payload structs handed to the builders.
SwapInstructions ==
    {[amount_in |-> a, minimum_amount_out |-> b] : a \in U64Samples, b \in U64Samples}

DepositInstructions ==
    {[pool_token_amount |-> a, maximum_token_a_amount |-> b,
      maximum_token_b_amount |-> c] : a \in U64Few, b \in U64Few, c \in U64Few}

WithdrawInstructions ==
    {[pool_token_amount |-> a, minimum_token_a_amount |-> b,
      minimum_token_b_amount |-> c] : a \in U64Few, b \in U64Few, c \in U64Few}

DepositSingleInstructions ==
    {[source_token_amount |-> a, minimum_pool_token_amount |-> b] :
        a \in U64Samples, b \in U64Samples}

WithdrawSingleInstructions ==
    {[destination_token_amount |-> a, maximum_pool_token_amount |-> b] :
        a \in U64Samples, b \in U64Samples}

\* The identifiers handed to a builder, in the order of its parameters: all
\* different in ascending patterns, all different in descending patterns,
\* and one identifier in every place.
KeyAssignments ==
    {[j \in 1..12 |-> KeyPat(j)],
     [j \in 1..12 |-> KeyPat(40 - j)],
     [j \in 1..12 |-> KeyPat(0)]}

\* The identifiers handed to a farm builder, in the order of its identifier
\* parameters: ascending patterns, descending patterns, one identifier in
\* every place, and the clock sysvar in every place.
FarmKeyAssignments ==
    {[j \in 1..13 |-> KeyPat(j)],
     [j \in 1..13 |-> KeyPat(40 - j)],
     [j \in 1..13 |-> KeyPat(0)],
     [j \in 1..13 |-> sysvar_clock_id]}

\* The numeric arguments of initialize_program and initialize_farm.
FarmNumbers == {<<U64(1), U64Pattern, U64Max>>, <<U64(0), U64(1), U64(1000000)>>}

Decoders ==
    {"AmmInstruction::unpack", "SwapV1::unpack_from_slice",
     "ProgramState::unpack_from_slice", "SwapVersion::unpack",
     "SwapVersion::is_initialized"}

\* The decoder named d applied to a buffer.
Apply(d, input) ==
    CASE d = "AmmInstruction::unpack" -> AmmInstruction_unpack(input)
      [] d = "SwapV1::unpack_from_slice" -> SwapV1_unpack_from_slice(input)
      [] d = "ProgramState::unpack_from_slice" -> ProgramState_unpack_from_slice(input)
      [] d = "SwapVersion::unpack" -> SwapVersion_unpack(input)
      [] d = "SwapVersion::is_initialized" -> SwapVersion_is_initialized(input)

----------------------------------------------------------------------------
(* The state machine.                                                      *)

VARIABLES
    src,    \* the value last encoded: its kind, the value, the encoder's outcome
    data,   \* the byte buffer
    how,    \* how the buffer came about
    res,    \* the decoder last applied to the buffer, and what it returned
    prev    \* res as it was before bytes were appended to the buffer

vars == <<src, data, how, res, prev>>

NoSrc == [kind |-> "none", val |-> <<>>, res |-> Ok("unit")]

NoRes == [op |-> "none", out |-> Err("none")]

Init ==
    /\ src = NoSrc
    /\ data = <<>>
    /\ how = "idle"
    /\ res = NoRes
    /\ prev = NoRes

\* A client encodes an instruction: data = x.pack().
EncodeInstruction(x) ==
    /\ how = "idle"
    /\ src' = [kind |-> "AmmInstruction", val |-> x, res |-> Ok("unit")]
    /\ data' = AmmInstruction_pack(x)
    /\ how' = "packed"
    /\ res' = NoRes
    /\ prev' = NoRes

\* x.pack_into_slice(dst) on a SwapV1 record and a buffer of n bytes.
EncodeSwapV1(x, n) ==
    LET out == SwapV1_pack_into_slice(x, Buffer(n)) IN
    /\ how = "idle"
    /\ src' = [kind |-> "SwapV1", val |-> x,
               res |-> IF IsOk(out) THEN Ok("unit") ELSE out]
    /\ data' = IF IsOk(out) THEN out.val ELSE Buffer(n)
    /\ how' = "packed"
    /\ res' = NoRes
    /\ prev' = NoRes

\* x.pack_into_slice(dst) on a ProgramState record and a buffer of n bytes.
EncodeProgramState(x, n) ==
    LET out == ProgramState_pack_into_slice(x, Buffer(n)) IN
    /\ how = "idle"
    /\ src' = [kind |-> "ProgramState", val |-> x,
               res |-> IF IsOk(out) THEN Ok("unit") ELSE out]
    /\ data' = IF IsOk(out) THEN out.val ELSE Buffer(n)
    /\ how' = "packed"
    /\ res' = NoRes
    /\ prev' = NoRes

\* SwapVersion::pack(SwapVersion::SwapV1(x), dst) on a buffer of n bytes.
EncodeSwapVersion(x, n) ==
    LET out == SwapVersion_pack(x, Buffer(n)) IN
    /\ how = "idle"
    /\ src' = [kind |-> "SwapVersion", val |-> x, res |-> out.res]
    /\ data' = out.dst
    /\ how' = "packed"
    /\ res' = NoRes
    /\ prev' = NoRes

\* Arbitrary bytes arrive as the buffer.
Submit(b) ==
    /\ how = "idle"
    /\ src' = NoSrc
    /\ data' = b
    /\ how' = "raw"
    /\ res' = NoRes
    /\ prev' = NoRes

\* Only the first n bytes of a packed buffer arrive.
Truncate(n) ==
    /\ how = "packed"
    /\ n < Len(data)
    /\ n < MaxPrefix \/ n >= Len(data) - MaxCut
    /\ data' = SliceTo(data, n)
    /\ how' = "truncated"
    /\ res' = NoRes
    /\ UNCHANGED <<src, prev>>

\* One byte of a packed buffer is overwritten.
Poke(i, v) ==
    /\ how = "packed"
    /\ i < Len(data)
    /\ data[i + 1] # v
    /\ data' = [data EXCEPT ![i + 1] = v]
    /\ how' = "poked"
    /\ res' = NoRes
    /\ UNCHANGED <<src, prev>>

\* Bytes are appended behind a buffer that a decoder has accepted.
Extend(t) ==
    /\ how \in {"packed", "raw"}
    /\ res # NoRes
    /\ IsOk(res.out)
    /\ data' = data \o t
    /\ how' = "extended"
    /\ prev' = res
    /\ res' = NoRes
    /\ UNCHANGED src

\* A decoder is applied to the buffer.
Decode(d) ==
    /\ how # "idle"
    /\ res' = [op |-> d, out |-> Apply(d, data)]
    /\ UNCHANGED <<src, data, how, prev>>

\* A client has built a call: the builder's name and arguments, the call it
\* returned, and the call's data as the buffer.
Built(builder, k, payload, call) ==
    /\ how = "idle"
    /\ src' = [kind |-> "Call",
               val |-> [builder |-> builder, keys |-> k, payload |-> payload],
               res |-> call]
    /\ data' = IF IsOk(call) THEN call.val.data ELSE <<>>
    /\ how' = "built"
    /\ res' = NoRes
    /\ prev' = NoRes

BuildInitialize(k, nonce) ==
    Built("initialize", k, nonce,
          initialize(k[1], k[2], k[3], k[4], k[5], k[6], k[7], k[8], k[9],
                     k[10], k[11], k[12], nonce))

BuildDepositAllTokenTypes(k, x) ==
    Built("deposit_all_token_types", k, x,
          deposit_all_token_types(k[1], k[2], k[3], k[4], k[5], k[6], k[7],
                                  k[8], k[9], k[10], k[11], k[12], x))

BuildWithdrawAllTokenTypes(k, x) ==
    Built("withdraw_all_token_types", k, x,
          withdraw_all_token_types(k[1], k[2], k[3], k[4], k[5], k[6], k[7],
                                   k[8], k[9], k[10], k[11], k[12], x))

BuildDepositSingle(k, x) ==
    Built("deposit_single_token_type_exact_amount_in", k, x,
          deposit_single_token_type_exact_amount_in(
              k[1], k[2], k[3], k[4], k[5], k[6], k[7], k[8], k[9], k[10], x))

BuildWithdrawSingle(k, x) ==
    Built("withdraw_single_token_type_exact_amount_out", k, x,
          withdraw_single_token_type_exact_amount_out(
              k[1], k[2], k[3], k[4], k[5], k[6], k[7], k[8], k[9], k[10], x))

BuildSwap(k, x) ==
    Built("swap", k, x,
          swap(k[1], k[2], k[3], k[4], k[5], k[6], k[7], k[8], k[9], k[10],
               k[11], k[12], x))

\* A client has built a farm call: the builder's name and arguments, the
\* Instruction it returned (or its panic), and the call's data as the buffer.
FarmBuilt(builder, k, payload, call) ==
    /\ how = "idle"
    /\ src' = [kind |-> "FarmCall",
               val |-> [builder |-> builder, keys |-> k, payload |-> payload],
               res |-> IF call = Panicked THEN Panicked ELSE Ok(call)]
    /\ data' = IF call = Panicked THEN <<>> ELSE call.data
    /\ how' = "built"
    /\ res' = NoRes
    /\ prev' = NoRes

BuildInitializeProgram(k, n) ==
    FarmBuilt("initialize_program", k, n,
              initialize_program(k[1], k[2], k[3], k[4], k[5], k[6],
                                 n[1], n[2], n[3], k[7]))

BuildInitializeFarm(k, nonce, n) ==
    FarmBuilt("initialize_farm", k, <<nonce, n[1], n[2]>>,
              initialize_farm(k[1], k[2], k[3], k[4], k[5], k[6], k[7], k[8],
                              k[9], nonce, n[1], n[2], k[10]))

BuildFarmDeposit(k, amount) ==
    FarmBuilt("deposit", k, amount,
              deposit(k[1], k[2], k[3], k[4], k[5], k[6], k[7], k[8], k[9],
                      k[10], k[11], k[12], amount, k[13]))

BuildFarmWithdraw(k, amount) ==
    FarmBuilt("withdraw", k, amount,
              withdraw(k[1], k[2], k[3], k[4], k[5], k[6], k[7], k[8], k[9],
                       k[10], k[11], k[12], amount, k[13]))

BuildAddReward(k, amount) ==
    FarmBuilt("add_reward", k, amount,
              add_reward(k[1], k[2], k[3], k[4], k[5], k[6], k[7], k[8], k[9],
                         amount, k[10]))

BuildPayFarmFee(k, amount) ==
    FarmBuilt("pay_farm_fee", k, amount,
              pay_farm_fee(k[1], k[2], k[3], k[4], k[5], k[6], k[7], amount, k[8]))

\* The buffer is dropped; the next value or buffer can be taken up.
Reset ==
    /\ how # "idle"
    /\ src' = NoSrc
    /\ data' = <<>>
    /\ how' = "idle"
    /\ res' = NoRes
    /\ prev' = NoRes

Next ==
    \/ \E x \in Instructions : EncodeInstruction(x)
    \/ \E x \in SwapV1Records, n \in {SwapV1_LEN - 1, SwapV1_LEN, SwapV1_LEN + 1} :
          EncodeSwapV1(x, n)
    \/ \E x \in ProgramStateRecords,
          n \in {ProgramState_LEN - 1, ProgramState_LEN, ProgramState_LEN + 1} :
          EncodeProgramState(x, n)
    \/ \E x \in SwapV1Records, n \in {0, LATEST_LEN - 1, LATEST_LEN, LATEST_LEN + 1} :
          EncodeSwapVersion(x, n)
    \/ \E k \in KeyAssignments, nonce \in NonceSamples : BuildInitialize(k, nonce)
    \/ \E k \in KeyAssignments, x \in DepositInstructions : BuildDepositAllTokenTypes(k, x)
    \/ \E k \in KeyAssignments, x \in WithdrawInstructions : BuildWithdrawAllTokenTypes(k, x)
    \/ \E k \in KeyAssignments, x \in DepositSingleInstructions : BuildDepositSingle(k, x)
    \/ \E k \in KeyAssignments, x \in WithdrawSingleInstructions : BuildWithdrawSingle(k, x)
    \/ \E k \in KeyAssignments, x \in SwapInstructions : BuildSwap(k, x)
    \/ \E k \in FarmKeyAssignments, n \in FarmNumbers : BuildInitializeProgram(k, n)
    \/ \E k \in FarmKeyAssignments, nonce \in NonceSamples, n \in FarmNumbers : BuildInitializeFarm(k, nonce, n)
    \/ \E k \in FarmKeyAssignments, amount \in U64Samples : BuildFarmDeposit(k, amount)
    \/ \E k \in FarmKeyAssignments, amount \in U64Samples : BuildFarmWithdraw(k, amount)
    \/ \E k \in FarmKeyAssignments, amount \in U64Samples : BuildAddReward(k, amount)
    \/ \E k \in FarmKeyAssignments, amount \in U64Samples : BuildPayFarmFee(k, amount)
    \/ \E b \in RawInputs : Submit(b)
    \/ \E n \in 0..LATEST_LEN : Truncate(n)
    \/ \E i \in PokeOffsets, v \in PokeBytes : Poke(i, v)
    \/ \E t \in Trailers : Extend(t)
    \/ \E d \in Decoders : Decode(d)
    \/ Reset

Spec == Init /\ [][Next]_vars

----------------------------------------------------------------------------
(* The claims about the instruction codec.                                 *)

\* The buffer is the untouched output of AmmInstruction::pack(src.val).
PackedInstruction == how = "packed" /\ src.kind = "AmmInstruction"

\* AmmInstruction::unpack has been applied to the buffer.
Unpacked == res.op = "AmmInstruction::unpack"

\* C1: AmmInstruction::unpack(x.pack()) succeeds and returns x, for every
\* variant and every field value.
C1_RoundTrip ==
    (PackedInstruction /\ Unpacked) => (IsOk(res.out) /\ res.out.val = src.val)

\* A three-field instruction with u64::MAX in it has gone through pack and unpack.
C1_Witness ==
    /\ PackedInstruction /\ Unpacked
    /\ src.val.variant = "WithdrawAllTokenTypes"
    /\ src.val.minimum_token_a_amount = U64Max
    /\ src.val.minimum_token_b_amount = U64Pattern
    /\ IsOk(res.out)

\* The tag of each variant on the wire.
WireTag(variant) ==
    CASE variant = "Initialize" -> 0
      [] variant = "Swap" -> 1
      [] variant = "DepositAllTokenTypes" -> 2
      [] variant = "WithdrawAllTokenTypes" -> 3
      [] variant = "DepositSingleTokenTypeExactAmountIn" -> 4
      [] variant = "WithdrawSingleTokenTypeExactAmountOut" -> 5

\* The u64 fields of an instruction in declared order.
WireFields(x) ==
    CASE x.variant = "Initialize" -> <<>>
      [] x.variant = "Swap" -> <<x.amount_in, x.minimum_amount_out>>
      [] x.variant = "DepositAllTokenTypes" ->
           <<x.pool_token_amount, x.maximum_token_a_amount, x.maximum_token_b_amount>>
      [] x.variant = "WithdrawAllTokenTypes" ->
           <<x.pool_token_amount, x.minimum_token_a_amount, x.minimum_token_b_amount>>
      [] x.variant = "DepositSingleTokenTypeExactAmountIn" ->
           <<x.source_token_amount, x.minimum_pool_token_amount>>
      [] x.variant = "WithdrawSingleTokenTypeExactAmountOut" ->
           <<x.destination_token_amount, x.maximum_pool_token_amount>>

\* The length of each variant on the wire.
WireLen(variant) ==
    CASE variant = "Initialize" -> 2
      [] variant \in {"Swap", "DepositSingleTokenTypeExactAmountIn",
                      "WithdrawSingleTokenTypeExactAmountOut"} -> 17
      [] variant \in {"DepositAllTokenTypes", "WithdrawAllTokenTypes"} -> 25

\* The 8 bytes at 0-based offset off of b are the little-endian bytes of v:
\* each 16-bit word of v is its low byte followed by its high byte.
IsLittleEndianAt(b, off, v) ==
    \A k \in 1..4 : b[off + 2 * k - 1] + ByteBase * b[off + 2 * k] = v[k]

\* C2: pack emits the tag byte of the variant, then the fields in declared
\* order (the nonce as one byte, every u64 as 8 little-endian bytes) and
\* nothing else: 2, 17, 25, 25, 17, 17 bytes; Swap{1000000, 990000} is byte 1
\* followed by the two little-endian values.
C2_WireFormat ==
    PackedInstruction =>
        LET x == src.val
            f == WireFields(x)
        IN /\ Len(data) = WireLen(x.variant)
           /\ data[1] = WireTag(x.variant)
           /\ x.variant = "Initialize" => data[2] = x.nonce
           /\ x.variant # "Initialize" => Len(data) = 1 + 8 * Len(f)
           /\ \A j \in 1..Len(f) : IsLittleEndianAt(data, 1 + 8 * (j - 1), f[j])
           /\ x = Swap(U64(1000000), U64(990000)) =>
                 data = <<1, 64, 66, 15, 0, 0, 0, 0, 0, 48, 27, 15, 0, 0, 0, 0, 0>>

\* Swap{1000000, 990000} has been packed.
C2_Witness ==
    /\ PackedInstruction
    /\ src.val = Swap(U64(1000000), U64(990000))
    /\ Len(data) = 17

\* C3: AmmInstruction::unpack of the first n bytes of x.pack(), for every
\* n < len(x.pack()), returns an error: it neither succeeds nor panics.
C3_TruncationRejected ==
    (how = "truncated" /\ src.kind = "AmmInstruction" /\ Unpacked) => IsErr(res.out)

\* A Deposit cut in the middle of its third field has been rejected.
C3_Witness ==
    /\ how = "truncated" /\ src.kind = "AmmInstruction" /\ Unpacked
    /\ src.val.variant = "DepositAllTokenTypes"
    /\ Len(data) = 20
    /\ IsErr(res.out)

\* C4: AmmInstruction::unpack of a non-empty input whose first byte is 6 or
\* more fails with the error of the match's default arm
\* (AmmError::InvalidInstruction), whatever follows the tag and however many
\* bytes do, none included.
C4_UnknownDiscriminant ==
    (Unpacked /\ Len(data) > 0 /\ data[1] >= 6) => res.out = Err(InvalidInstruction)

\* Tag 6 in front of 16 bytes that are a valid Swap payload has been rejected.
C4_Witness ==
    /\ Unpacked /\ how = "poked" /\ src.kind = "AmmInstruction"
    /\ src.val.variant = "Swap"
    /\ Len(data) = 17 /\ data[1] = 6
    /\ res.out = Err(InvalidInstruction)

\* C5: with tag byte 0, AmmInstruction::unpack succeeds if and only if exactly
\* one byte follows the tag, yielding Initialize with that byte as nonce; with
\* no byte or with two or more it fails (AmmError::InvalidInstruction).
C5_InitializeStrict ==
    (Unpacked /\ Len(data) > 0 /\ data[1] = 0) =>
        IF Len(data) = 2 THEN res.out = Ok(Initialize(data[2]))
        ELSE res.out = Err(InvalidInstruction)

\* [0, 5, 9] has been rejected.
C5_Witness ==
    /\ Unpacked
    /\ data = <<0, 5, 9>>
    /\ res.out = Err(InvalidInstruction)

\* C6: when AmmInstruction::unpack(b) = Ok(x) with a tag in 1..5, then
\* AmmInstruction::unpack(b ++ t) = Ok(x) for every t: bytes behind the
\* fields change nothing and are not rejected.
C6_TrailingTolerated ==
    (how = "extended" /\ prev.op = "AmmInstruction::unpack" /\ Unpacked
        /\ data[1] \in 1..5)
    => (IsOk(res.out) /\ res.out = prev.out)

\* A Swap followed by nine more bytes has been unpacked to the same Swap.
C6_Witness ==
    /\ how = "extended" /\ prev.op = "AmmInstruction::unpack" /\ Unpacked
    /\ data[1] = 1
    /\ Len(data) = 26
    /\ IsOk(res.out)
    /\ res.out.val = src.val

\* Why, by the decoding rules, AmmInstruction::unpack rejects a buffer
\* ("none" when the rules accept it).
Cause(b) ==
    CASE Len(b) = 0 -> "MissingDiscriminant"
      [] Len(b) > 0 /\ b[1] >= 6 -> "UnknownDiscriminant"
      [] Len(b) > 0 /\ b[1] \in {1, 4, 5} ->
           IF Len(b) < 17 THEN "TruncatedInput" ELSE "none"
      [] Len(b) > 0 /\ b[1] \in {2, 3} ->
           IF Len(b) < 25 THEN "TruncatedInput" ELSE "none"
      [] Len(b) > 0 /\ b[1] = 0 ->
           IF Len(b) # 2 THEN "MalformedPayload" ELSE "none"

\* One rejected buffer for each of the four causes.
CauseExamples == {<<>>, <<6>>, <<1>>, <<0>>}

\* C7 as claimed: the four causes of a decode failure are reported as four
\* pairwise distinct error kinds, so the error returned for a buffer differs
\* from the error returned for any buffer rejected for another cause.
C7_Original ==
    (Unpacked /\ IsErr(res.out)) =>
        \A b \in CauseExamples :
            Cause(b) # Cause(data) => AmmInstruction_unpack(b) # res.out

\* C7 as amended: the four causes (empty input, a tag of 6 or more, too few
\* bytes for a u64 field under tags 1-5, a wrong remainder length under tag 0)
\* are all reported as the one error AmmError::InvalidInstruction.
C7_SingleErrorKind ==
    (Unpacked /\ Cause(data) # "none") => res.out = Err(InvalidInstruction)

\* A truncated Deposit has been rejected with AmmError::InvalidInstruction.
C7_Witness ==
    /\ Unpacked /\ how = "truncated"
    /\ Cause(data) = "TruncatedInput"
    /\ data[1] = 2
    /\ res.out = Err(InvalidInstruction)

----------------------------------------------------------------------------
(* The claims about the account-state codec.                               *)

\* C8: on every byte sequence, the empty one included, each decoder
\* (AmmInstruction::unpack, SwapV1::unpack_from_slice,
\* ProgramState::unpack_from_slice, SwapVersion::unpack,
\* SwapVersion::is_initialized) returns Ok, Err or a boolean: it does not
\* panic, that is, it reads no index at or beyond the input length.
C8_DecodeTotal ==
    res.op # "none" =>
        /\ IsOk(res.out) \/ IsErr(res.out)
        /\ res.op = "SwapVersion::is_initialized" =>
              (IsOk(res.out) /\ res.out.val \in BOOLEAN)

\* SwapV1::unpack_from_slice has returned an error on a buffer one byte short.
C8_Witness ==
    /\ res.op = "SwapV1::unpack_from_slice"
    /\ Len(data) = SwapV1_LEN - 1
    /\ IsErr(res.out)

\* The buffer is what pack_into_slice wrote for the record src.val.
PackedRecord(kind) == how = "packed" /\ src.kind = kind /\ IsOk(src.res)

\* The accessors of the handle h return the fields of the record x.
SameLogicalFields(h, x) ==
    /\ AmmStatus_is_initialized(h) = x.is_initialized
    /\ AmmStatus_nonce(h) = x.nonce
    /\ AmmStatus_token_program_id(h) = x.token_program_id
    /\ AmmStatus_token_a_account(h) = x.token_a
    /\ AmmStatus_token_b_account(h) = x.token_b
    /\ AmmStatus_pool_mint(h) = x.pool_mint
    /\ AmmStatus_token_a_mint(h) = x.token_a_mint
    /\ AmmStatus_token_b_mint(h) = x.token_b_mint

\* unpack_from_slice gives back the SwapV1 or ProgramState record packed.
RecordRoundTrip ==
    /\ (PackedRecord("SwapV1") /\ res.op = "SwapV1::unpack_from_slice")
          => res.out = Ok(src.val)
    /\ (PackedRecord("ProgramState") /\ res.op = "ProgramState::unpack_from_slice")
          => res.out = Ok(src.val)

\* C9 as claimed: unpack_from_slice gives back every SwapV1 and ProgramState
\* record packed, and SwapVersion::unpack of the 291 bytes written by
\* SwapVersion::pack(SwapV1(x)) succeeds, for every record x, with accessors
\* that return x's fields.
C9_Original ==
    /\ RecordRoundTrip
    /\ (PackedRecord("SwapVersion") /\ res.op = "SwapVersion::unpack")
          => (IsOk(res.out) /\ SameLogicalFields(res.out.val, src.val))

\* C9 as amended: unpack_from_slice gives back every SwapV1 and ProgramState
\* record packed; SwapVersion::unpack of the 291 bytes written by
\* SwapVersion::pack(SwapV1(x)) succeeds, with accessors that return x's
\* fields, when x.is_initialized is true, and fails with
\* ProgramError::UninitializedAccount when it is false.
C9_StateRoundTrip ==
    /\ RecordRoundTrip
    /\ (PackedRecord("SwapVersion") /\ res.op = "SwapVersion::unpack")
          => IF src.val.is_initialized
             THEN IsOk(res.out) /\ SameLogicalFields(res.out.val, src.val)
             ELSE res.out = Err(UninitializedAccount)

\* An initialized record has gone through SwapVersion::pack and ::unpack.
C9_Witness ==
    /\ PackedRecord("SwapVersion") /\ res.op = "SwapVersion::unpack"
    /\ Len(data) = LATEST_LEN
    /\ src.val.is_initialized
    /\ src.val.nonce = 7
    /\ IsOk(res.out)

\* C10: SwapVersion::unpack of a buffer whose first byte is not 1 fails with
\* the error of the version match's default arm
\* (ProgramError::UninitializedAccount), also when the 290 bytes behind it are
\* a valid SwapV1; a buffer of version 1 that is too short or whose flag byte
\* is neither 0 nor 1 fails with another error, and so does every buffer
\* that SwapV1::unpack_from_slice rejects.
C10_VersionGate ==
    /\ (res.op = "SwapVersion::unpack" /\ Len(data) > 0) =>
          /\ data[1] # 1 => res.out = Err(UninitializedAccount)
          /\ (data[1] = 1 /\ Len(data) < LATEST_LEN)
                => (IsErr(res.out) /\ res.out.val # UninitializedAccount)
          /\ (data[1] = 1 /\ Len(data) = LATEST_LEN /\ data[2] \notin {0, 1})
                => (IsErr(res.out) /\ res.out.val # UninitializedAccount)
    /\ (res.op = "SwapV1::unpack_from_slice" /\ IsErr(res.out))
          => res.out.val # UninitializedAccount

\* Version byte 2 in front of a valid, initialized SwapV1 has been rejected.
C10_Witness ==
    /\ res.op = "SwapVersion::unpack"
    /\ how = "poked" /\ src.kind = "SwapVersion" /\ IsOk(src.res)
    /\ src.val.is_initialized
    /\ Len(data) = LATEST_LEN /\ data[1] = 2
    /\ IsOk(SwapV1_unpack_from_slice(SliceFrom(data, 1)))
    /\ res.out = Err(UninitializedAccount)


----------------------------------------------------------------------------
(* The length contract of the state decoders.                              *)

StateDecoders == {"SwapV1::unpack_from_slice", "ProgramState::unpack_from_slice"}

\* The declared length of the record a state decoder reads.
DeclaredLen(d) ==
    IF d = "SwapV1::unpack_from_slice" THEN SwapV1_LEN ELSE ProgramState_LEN

\* A state decoder has been applied to the buffer.
StateDecoded == res.op \in StateDecoders

\* A buffer shorter than the declared length is refused; the decoders report
\* it with AmmError::InvalidInstruction.
ShortRefused ==
    (StateDecoded /\ Len(data) < DeclaredLen(res.op))
        => res.out = Err(InvalidInstruction)

\* A buffer at least as long as the declared length decodes to what its first
\* LEN bytes alone decode to, and bytes appended behind an accepted buffer
\* leave the result as it was.
TrailingIgnored ==
    /\ (StateDecoded /\ Len(data) >= DeclaredLen(res.op))
           => res.out = Apply(res.op, SliceTo(data, DeclaredLen(res.op)))
    /\ (StateDecoded /\ how = "extended" /\ prev.op = res.op)
           => res.out = prev.out

\* The versioned wrapper has decoded a buffer that it accepted before bytes
\* were appended to it.
WrapperExtended ==
    /\ how = "extended"
    /\ prev.op = "SwapVersion::unpack"
    /\ res.op = "SwapVersion::unpack"

\* C11 as stated: short buffers are refused, trailing bytes are ignored by the
\* two state decoders, and the versioned wrapper ignores them as well: a
\* buffer longer than 291 bytes decodes to what its first 291 bytes decode to.
C11_Original ==
    /\ ShortRefused
    /\ TrailingIgnored
    /\ WrapperExtended => res.out = prev.out

\* C11, amended: short buffers are refused and trailing bytes are ignored by
\* SwapV1::unpack_from_slice and ProgramState::unpack_from_slice; the versioned
\* wrapper has no such tolerance: SwapVersion::unpack of a buffer with version
\* byte 1 that is longer than 291 bytes fails with InvalidAccountData.
C11_LengthContract ==
    /\ ShortRefused
    /\ TrailingIgnored
    /\ (res.op = "SwapVersion::unpack" /\ Len(data) > LATEST_LEN /\ data[1] = 1)
           => res.out = Err(InvalidAccountData)

\* A buffer that SwapV1::unpack_from_slice accepted had bytes appended and
\* still decodes to the same record.
C11_Witness ==
    /\ how = "extended"
    /\ res.op = "SwapV1::unpack_from_slice"
    /\ prev.op = res.op
    /\ Len(data) > SwapV1_LEN
    /\ IsOk(res.out)
    /\ res.out = prev.out

----------------------------------------------------------------------------
(* The flag byte of the state records.                                     *)

\* A state decoder has been applied to a buffer long enough for its record.
StateDecodedLongEnough == StateDecoded /\ Len(data) >= DeclaredLen(res.op)

\* C12: a SwapV1 or ProgramState buffer of sufficient length whose first byte
\* is anything but 0 or 1 is refused (the code reports InvalidAccountData);
\* a first byte 0 decodes to is_initialized = false and 1 to true; and
\* pack_into_slice writes only 0 or 1 at that offset, 1 exactly when the
\* record is initialized.
C12_FlagByte ==
    /\ (StateDecodedLongEnough /\ data[1] \notin {0, 1})
           => res.out = Err(InvalidAccountData)
    /\ (StateDecodedLongEnough /\ data[1] \in {0, 1}
            /\ res.op = "SwapV1::unpack_from_slice")
           => (IsOk(res.out) /\ res.out.val.is_initialized = (data[1] = 1))
    /\ (StateDecodedLongEnough /\ data[1] \in {0, 1} /\ IsOk(res.out))
           => res.out.val.is_initialized = (data[1] = 1)
    /\ (PackedRecord("SwapV1") \/ PackedRecord("ProgramState"))
           => (data[1] \in {0, 1} /\ (data[1] = 1) = src.val.is_initialized)

\* The flag byte of a packed ProgramState was overwritten with 255 and the
\* decoder refused the buffer.
C12_Witness ==
    /\ how = "poked"
    /\ src.kind = "ProgramState"
    /\ Len(data) >= ProgramState_LEN
    /\ data[1] = 255
    /\ res.op = "ProgramState::unpack_from_slice"
    /\ res.out = Err(InvalidAccountData)

----------------------------------------------------------------------------
(* The initialization probe.                                               *)

\* The probe SwapVersion::is_initialized has been applied to the buffer.
Probed == res.op = "SwapVersion::is_initialized"

\* The buffer is one SwapVersion::unpack accepts with the flag set: 291
\* bytes, version byte 1, flag byte 1.
InitializedPool == Len(data) = LATEST_LEN /\ data[1] = 1 /\ data[2] = 1

\* C13: SwapVersion::is_initialized(b) returns a bool for every buffer b; it
\* is true exactly when SwapVersion::unpack(b) succeeds with the flag set,
\* and false for every b on which unpack fails: empty, another version byte,
\* wrong length, invalid flag byte.
C13_Probe ==
    Probed =>
        /\ IsOk(res.out)
        /\ res.out.val \in BOOLEAN
        /\ res.out.val = (/\ IsOk(SwapVersion_unpack(data))
                          /\ SwapVersion_unpack(data).val.is_initialized)
        /\ ~IsOk(SwapVersion_unpack(data)) => res.out.val = FALSE
        /\ res.out.val = InitializedPool

\* The probe answered false on a packed pool whose version byte was
\* overwritten with 2.
C13_Witness ==
    /\ Probed
    /\ how = "poked"
    /\ src.kind = "SwapVersion"
    /\ Len(data) = LATEST_LEN
    /\ data[1] = 2
    /\ res.out = Ok(FALSE)

----------------------------------------------------------------------------
(* The versioned serializer.                                               *)

\* SwapVersion::pack has run on a destination of exactly LATEST_LEN bytes.
VersionedPacked ==
    /\ how = "packed"
    /\ src.kind = "SwapVersion"
    /\ Len(data) = LATEST_LEN

\* C14: SwapVersion::pack(SwapV1(x), dst) on a destination of LATEST_LEN =
\* 291 bytes returns Ok for every record x, without panicking, and leaves
\* dst[0] = 1 and, in dst[1..], the 290 bytes that x.pack_into_slice writes.
C14_VersionedPack ==
    VersionedPacked =>
        /\ src.res = Ok("unit")
        /\ LATEST_LEN = 291
        /\ data[1] = 1
        /\ Ok(SliceFrom(data, 1))
               = SwapV1_pack_into_slice(src.val, Buffer(SwapV1_LEN))
        /\ \A i \in 1..LATEST_LEN : data[i] \in 0..(ByteBase - 1)

\* An uninitialized record with nonce 255 was packed behind the version byte.
C14_Witness ==
    /\ VersionedPacked
    /\ src.res = Ok("unit")
    /\ ~src.val.is_initialized
    /\ src.val.nonce = 255
    /\ data[1] = 1
    /\ data[3] = 255

----------------------------------------------------------------------------
(* The layout of the pool state.                                           *)

\* The nine identifiers of a SwapV1 in the order of the layout.
SwapV1Identifiers ==
    <<"amm_id", "dex_program_id", "market_id", "token_program_id", "token_a",
      "token_b", "pool_mint", "token_a_mint", "token_b_mint">>

\* The 32 bytes of buffer b at offset 2 + 32k, counted from 0.
IdentifierAt(b, k) ==
    SubSeq(b, 3 + PUBKEY_BYTES * k, 2 + PUBKEY_BYTES * (k + 1))

\* The record r holds what the buffer b has at the offsets of the layout.
SwapV1LaidOut(r, b) ==
    /\ r.is_initialized = (b[1] = 1)
    /\ r.nonce = b[2]
    /\ \A k \in 0..8 : r[SwapV1Identifiers[k + 1]] = IdentifierAt(b, k)

\* The scenario's buffer: 291 bytes, version byte 1, flag byte 1.
VersionedScenario ==
    /\ res.op = "SwapVersion::unpack"
    /\ Len(data) = LATEST_LEN
    /\ data[1] = 1
    /\ data[2] = 1

\* C16: the SwapV1 layout is the flag at offset 0, the nonce at offset 1 and
\* nine 32-byte identifiers at offsets 2 + 32k in the order amm_id,
\* dex_program_id, market_id, token_program_id, token_a, token_b, pool_mint,
\* token_a_mint, token_b_mint, for the decoder and the encoder alike; and a
\* 291-byte buffer with version byte 1 and flag byte 1 decodes through
\* SwapVersion::unpack to a handle whose is_initialized() is true, whose
\* nonce() is the nonce byte and whose accessors token_program_id,
\* token_a_account, token_b_account, pool_mint, token_a_mint, token_b_mint
\* return the 4th to 9th identifier.
C16_PoolLayout ==
    /\ (res.op = "SwapV1::unpack_from_slice" /\ IsOk(res.out))
           => SwapV1LaidOut(res.out.val, data)
    /\ PackedRecord("SwapV1")
           => (/\ data[1] \in {0, 1}
               /\ SwapV1LaidOut(src.val, data))
    /\ VersionedScenario =>
           LET body == SliceFrom(data, 1) IN
           /\ IsOk(res.out)
           /\ AmmStatus_is_initialized(res.out.val) = TRUE
           /\ AmmStatus_nonce(res.out.val) = data[3]
           /\ AmmStatus_token_program_id(res.out.val) = IdentifierAt(body, 3)
           /\ AmmStatus_token_a_account(res.out.val) = IdentifierAt(body, 4)
           /\ AmmStatus_token_b_account(res.out.val) = IdentifierAt(body, 5)
           /\ AmmStatus_pool_mint(res.out.val) = IdentifierAt(body, 6)
           /\ AmmStatus_token_a_mint(res.out.val) = IdentifierAt(body, 7)
           /\ AmmStatus_token_b_mint(res.out.val) = IdentifierAt(body, 8)

\* The scenario itself: nonce byte 7 and nine identifiers that all differ,
\* decoded to a handle with nonce() = 7.
C16_Witness ==
    /\ VersionedScenario
    /\ data[3] = 7
    /\ \A j, k \in 0..8 :
           j # k => IdentifierAt(SliceFrom(data, 1), j)
                        # IdentifierAt(SliceFrom(data, 1), k)
    /\ IsOk(res.out)
    /\ AmmStatus_nonce(res.out.val) = 7

----------------------------------------------------------------------------
(* The layout of the program state.                                        *)

RECURSIVE SumSeq(_)
SumSeq(s) == IF Len(s) = 0 THEN 0 ELSE Head(s) + SumSeq(Tail(s))

\* The n bytes of buffer b at offset off, counted from 0.
BytesAt(b, off, n) == SubSeq(b, off + 1, off + n)

\* The record r and the buffer b agree on the partition flag (0, 1),
\* state_owner (1, 32), fee_owner (33, 32), initial_supply (65, 8,
\* little-endian), fees (73, 24), curve (97, 33).
ProgramStateLaidOut(r, b) ==
    /\ r.is_initialized = (b[1] = 1)
    /\ r.state_owner = BytesAt(b, 1, 32)
    /\ r.fee_owner = BytesAt(b, 33, 32)
    /\ IsLittleEndianAt(b, 65, r.initial_supply)
    /\ Fees_pack_into_slice(r.fees) = BytesAt(b, 73, 24)
    /\ SwapCurve_pack_into_slice(r.swap_curve) = BytesAt(b, 97, 33)

\* C17: a ProgramState occupies exactly 130 bytes, partitioned without gap
\* or overlap into flag (offset 0, 1 byte), state_owner (1, 32), fee_owner
\* (33, 32), initial_supply (65, 8, little-endian), fees (73, 24) and curve
\* (97, 33); pack_into_slice and unpack_from_slice use this one partition,
\* and the widths sum to LEN.
C17_ConfigLayout ==
    /\ SumSeq(ProgramState_widths) = ProgramState_LEN
    /\ ProgramState_LEN = 97 + 33
    /\ PackedRecord("ProgramState")
           => (/\ data[1] \in {0, 1}
               /\ ProgramStateLaidOut(src.val, data)
               /\ \A i \in (ProgramState_LEN + 1)..Len(data) : data[i] = DstFill)
    /\ (res.op = "ProgramState::unpack_from_slice" /\ IsOk(res.out))
           => ProgramStateLaidOut(res.out.val, data)

\* A packed ProgramState whose initial_supply has eight different bytes was
\* decoded again, and the record read is the record written.
C17_Witness ==
    /\ PackedRecord("ProgramState")
    /\ Len(data) = ProgramState_LEN
    /\ src.val.initial_supply = U64Pattern
    /\ res.op = "ProgramState::unpack_from_slice"
    /\ res.out = Ok(src.val)

----------------------------------------------------------------------------
(* The call builders.                                                      *)

\* A builder has returned and its call's data is the buffer.
CallBuilt == how = "built" /\ src.kind = "Call"

\* The call the builder returned.
Call == src.res.val

\* The instruction variant that belongs to the builder, with its payload.
MatchingVariant ==
    LET p == src.val.payload IN
    CASE src.val.builder = "initialize" -> Initialize(p)
      [] src.val.builder = "swap" -> Swap(p.amount_in, p.minimum_amount_out)
      [] src.val.builder = "deposit_all_token_types" ->
            DepositAllTokenTypes(p.pool_token_amount, p.maximum_token_a_amount,
                                 p.maximum_token_b_amount)
      [] src.val.builder = "withdraw_all_token_types" ->
            WithdrawAllTokenTypes(p.pool_token_amount, p.minimum_token_a_amount,
                                  p.minimum_token_b_amount)
      [] src.val.builder = "deposit_single_token_type_exact_amount_in" ->
            DepositSingleTokenTypeExactAmountIn(p.source_token_amount,
                                                p.minimum_pool_token_amount)
      [] src.val.builder = "withdraw_single_token_type_exact_amount_out" ->
            WithdrawSingleTokenTypeExactAmountOut(p.destination_token_amount,
                                                  p.maximum_pool_token_amount)

\* C18: each of the six builders returns Ok for all arguments; the call's
\* program_id is the program_id argument, its data is AmmInstruction::pack of
\* the matching variant with the given payload, and AmmInstruction::unpack of
\* the data gives that variant back.
C18_BuilderPayload ==
    CallBuilt =>
        /\ IsOk(src.res)
        /\ Call.program_id = src.val.keys[1]
        /\ Call.data = AmmInstruction_pack(MatchingVariant)
        /\ data = Call.data
        /\ Unpacked => res.out = Ok(MatchingVariant)

\* swap was called with two different amounts and the data of its call was
\* unpacked to the Swap variant.
C18_Witness ==
    /\ CallBuilt
    /\ src.val.builder = "swap"
    /\ src.val.payload.amount_in = U64Pattern
    /\ src.val.payload.minimum_amount_out = U64(990000)
    /\ Unpacked
    /\ res.out = Ok(Swap(U64Pattern, U64(990000)))

----------------------------------------------------------------------------
(* The account lists of the calls.                                         *)

\* The account list of the built call.
Accounts == Call.accounts

\* For each builder, the parameter (1 = program_id, 2 = token_program_id,
\* 3 = swap_pubkey, ..) whose identifier each entry of the list holds.
AccountOrder(builder) ==
    CASE builder = "initialize" -> <<3, 4, 5, 6, 7, 8, 9, 10, 11, 2, 12>>
      [] builder = "swap" -> <<3, 4, 5, 6, 7, 8, 9, 10, 11, 12, 2>>
      [] builder = "deposit_all_token_types" -> <<3, 4, 5, 6, 7, 8, 9, 10, 11, 12, 2>>
      [] builder = "withdraw_all_token_types" -> <<3, 4, 5, 6, 7, 8, 9, 10, 11, 12, 2>>
      [] builder = "deposit_single_token_type_exact_amount_in" ->
            <<3, 4, 5, 6, 7, 8, 9, 10, 2>>
      [] builder = "withdraw_single_token_type_exact_amount_out" ->
            <<3, 4, 5, 6, 7, 8, 9, 10, 2>>

\* The sizes the account lists may have.
AccountListSizes(builder) ==
    CASE builder \in {"initialize", "swap"} -> {11}
      [] builder \in {"deposit_all_token_types", "withdraw_all_token_types"} -> {10, 11}
      [] OTHER -> {8, 9}

\* C19: initialize produces exactly 11 account references, the last three
\* being the market, token-program and dex identifiers; swap produces exactly
\* 11; deposit_all_token_types and withdraw_all_token_types produce 10 or 11
\* (the code: 11); the two single-sided builders produce 8 or 9 (the code: 9);
\* and every entry holds the identifier of one fixed parameter, whatever the
\* identifiers and the payload are.
C19_AccountLists ==
    CallBuilt =>
        /\ Len(Accounts) \in AccountListSizes(src.val.builder)
        /\ Len(Accounts) = Len(AccountOrder(src.val.builder))
        /\ \A i \in 1..Len(Accounts) :
               Accounts[i].pubkey = src.val.keys[AccountOrder(src.val.builder)[i]]
        /\ src.val.builder = "initialize" =>
               {Accounts[i].pubkey : i \in 9..11}
                   = {src.val.keys[2], src.val.keys[11], src.val.keys[12]}

\* initialize was called with twelve different identifiers and returned 11
\* references that end in the market, the token program and the dex program.
C19_Witness ==
    /\ CallBuilt
    /\ src.val.builder = "initialize"
    /\ \A i, j \in 1..12 : i # j => src.val.keys[i] # src.val.keys[j]
    /\ Len(Accounts) = 11
    /\ Accounts[9].pubkey = src.val.keys[11]
    /\ Accounts[10].pubkey = src.val.keys[2]
    /\ Accounts[11].pubkey = src.val.keys[12]

\* C20: in the account lists of swap, deposit_all_token_types,
\* withdraw_all_token_types, deposit_single_token_type_exact_amount_in and
\* withdraw_single_token_type_exact_amount_out the user transfer authority
\* (index 2) is flagged signer and read-only, and no other reference is
\* flagged signer.
C20_SignerAnnotation ==
    (CallBuilt /\ src.val.builder # "initialize") =>
        /\ Accounts[3].pubkey = src.val.keys[5]
        /\ Accounts[3].is_signer
        /\ ~Accounts[3].is_writable
        /\ \A i \in 1..Len(Accounts) : i # 3 => ~Accounts[i].is_signer

----------------------------------------------------------------------------
(* The documented account contract.                                        *)

\* The doc comment of the variant that belongs to the builder.
DocumentedAccounts(builder) ==
    CASE builder = "initialize" -> Initialize_documented
      [] builder = "swap" -> Swap_documented
      [] builder = "deposit_all_token_types" -> DepositAllTokenTypes_documented
      [] builder = "withdraw_all_token_types" -> WithdrawAllTokenTypes_documented
      [] builder = "deposit_single_token_type_exact_amount_in" ->
            DepositSingleTokenTypeExactAmountIn_documented
      [] builder = "withdraw_single_token_type_exact_amount_out" ->
            WithdrawSingleTokenTypeExactAmountOut_documented

\* The flags of the reference at index i are the ones documented at index i.
AsDocumentedAt(i) ==
    LET doc == DocumentedAccounts(src.val.builder)[i] IN
    /\ Accounts[i].is_writable = doc.is_writable
    /\ Accounts[i].is_signer = doc.is_signer

\* C21: the account list of each of the six builders has as many entries as
\* the numbered list in the doc comment of its AmmInstruction variant, and at
\* every index the writable flag and the signer flag are the documented ones.
C21_DocumentedContract ==
    CallBuilt =>
        /\ Len(Accounts) = Len(DocumentedAccounts(src.val.builder))
        /\ \A i \in 1..Len(Accounts) : AsDocumentedAt(i)

----------------------------------------------------------------------------
(* The account lists of the farm calls.                                    *)

\* A farm builder has returned and its call's data is the buffer.
FarmCallBuilt == how = "built" /\ src.kind = "FarmCall"

\* The account list of the built farm call.
FarmAccounts == src.res.val.accounts

\* The index marked `[s]` in the doc comment of the FarmInstruction variant
\* the builder creates: 1 for SetProgramData, 2 for every other variant.
DocumentedSignerIndex(builder) ==
    IF builder = "initialize_program" THEN 1 ELSE 2

\* The indices of the references flagged signer.
FarmSigners == {i \in 0..(Len(FarmAccounts) - 1) : FarmAccounts[i + 1].is_signer}

\* C22: for each farm builder (initialize_program, initialize_farm, deposit,
\* withdraw, add_reward, pay_farm_fee) and all arguments, the account at
\* index 0 is the program-data account or farm pool, writable and not a
\* signer; exactly one account is flagged signer; and it is the one at the
\* index documented `[s]`: 1 for SetProgramData, 2 for all others.
C22_FarmSigner ==
    FarmCallBuilt =>
        /\ IsOk(src.res)
        /\ FarmAccounts[1].pubkey = src.val.keys[1]
        /\ FarmAccounts[1].is_writable
        /\ ~FarmAccounts[1].is_signer
        /\ Cardinality(FarmSigners) = 1
        /\ FarmSigners = {DocumentedSignerIndex(src.val.builder)}

\* withdraw was called with thirteen different identifiers and returned 13
\* references of which only the withdrawer at index 2 is a signer.
C22_Witness ==
    /\ FarmCallBuilt
    /\ src.val.builder = "withdraw"
    /\ \A i, j \in 1..13 : i # j => src.val.keys[i] # src.val.keys[j]
    /\ Len(FarmAccounts) = 13
    /\ FarmAccounts[3].pubkey = src.val.keys[3]
    /\ FarmSigners = {2}

----------------------------------------------------------------------------
(* The acceptance set of the instruction decoder.                          *)

\* The byte sequences the claim names: non-empty, and tag 0 with 2 bytes in
\* all, or tag 1, 4 or 5 with at least 17, or tag 2 or 3 with at least 25.
Accepted(b) ==
    /\ Len(b) > 0
    /\ \/ b[1] = 0 /\ Len(b) = 2
       \/ b[1] \in {1, 4, 5} /\ Len(b) >= 17
       \/ b[1] \in {2, 3} /\ Len(b) >= 25

\* C23: AmmInstruction::unpack(b) succeeds exactly on the byte sequences of
\* the acceptance set and returns an error on every other; on success the
\* variant is the one b[0] selects, the nonce of Initialize is b[1], and the
\* i-th u64 field is the little-endian value of b[1 + 8i .. 9 + 8i].
C23_AcceptanceSet ==
    Unpacked =>
        /\ IsOk(res.out) <=> Accepted(data)
        /\ ~Accepted(data) => IsErr(res.out)
        /\ IsOk(res.out) =>
               LET x == res.out.val
                   f == WireFields(x)
               IN /\ WireTag(x.variant) = data[1]
                  /\ x.variant = "Initialize" => x.nonce = data[2]
                  /\ \A j \in 1..Len(f) :
                         IsLittleEndianAt(data, 1 + 8 * (j - 1), f[j])

\* The tag of a packed 25-byte deposit was overwritten with 1: the decoder
\* accepted the buffer as a Swap of its first two fields.
C23_Witness ==
    /\ Unpacked
    /\ how = "poked"
    /\ src.kind = "AmmInstruction"
    /\ src.val.variant = "DepositAllTokenTypes"
    /\ Len(data) = 25
    /\ data[1] = 1
    /\ IsOk(res.out)
    /\ res.out.val = Swap(src.val.pool_token_amount, src.val.maximum_token_a_amount)

----------------------------------------------------------------------------
(* Re-encoding an accepted buffer.                                         *)

\* The canonical length that belongs to a tag byte: 2, 17 or 25.
CanonicalLen(tag) ==
    CASE tag = 0 -> 2
      [] tag \in {1, 4, 5} -> 17
      [] tag \in {2, 3} -> 25

\* The canonical prefix of an accepted buffer.
CanonicalPrefix(b) == SliceTo(b, CanonicalLen(b[1]))

\* Buffers to compare the decoded buffer with: packed instructions, some
\* equal in all but the tag or one field, with and without a byte behind
\* them (all are accepted but Initialize with a byte behind it).
PeerInputs ==
    {AmmInstruction_pack(y) \o t :
        y \in {Initialize(7), Swap(U64(1), U64Pattern), Swap(U64(1), U64Max),
               Swap(U64Pattern, U64Pattern),
               DepositSingleTokenTypeExactAmountIn(U64(1), U64Pattern),
               DepositAllTokenTypes(U64(1), U64Pattern, U64Max),
               DepositAllTokenTypes(U64(1), U64Pattern, U64Pattern),
               WithdrawAllTokenTypes(U64(1), U64Pattern, U64Max)},
        t \in {<<>>, <<255>>}}

\* C24: whenever AmmInstruction::unpack(b) = Ok(x), x.pack() is the first 2,
\* 17 or 25 bytes of b according to the tag, and x.pack() = b exactly when b
\* has that canonical length; unpacking x.pack() gives x again, so that
\* pack(unpack(pack(x))) = pack(x); and another accepted input decodes to the
\* same instruction exactly when its canonical prefix is the same.
C24_Canonical ==
    (Unpacked /\ IsOk(res.out)) =>
        LET x == res.out.val
            repacked == AmmInstruction_pack(x)
        IN /\ Len(repacked) \in {2, 17, 25}
           /\ Len(repacked) = CanonicalLen(data[1])
           /\ repacked = CanonicalPrefix(data)
           /\ (repacked = data) <=> (Len(data) = CanonicalLen(data[1]))
           /\ AmmInstruction_unpack(repacked) = Ok(x)
           /\ \A b \in PeerInputs :
                  IsOk(AmmInstruction_unpack(b)) =>
                      ((AmmInstruction_unpack(b) = res.out)
                           <=> (CanonicalPrefix(b) = CanonicalPrefix(data)))

\* A packed deposit with three different fields had bytes appended, was
\* accepted, and its re-encoding is the buffer without the appended bytes.
C24_Witness ==
    /\ Unpacked
    /\ how = "extended"
    /\ src.kind = "AmmInstruction"
    /\ src.val = DepositAllTokenTypes(U64(1), U64Pattern, U64Max)
    /\ Len(data) > 25
    /\ IsOk(res.out)
    /\ AmmInstruction_pack(res.out.val) = SliceTo(data, 25)
    /\ AmmInstruction_pack(res.out.val) # data
====
